---------------------------- MODULE Spec2Model ----------------------------
(***************************************************************************)
(* Model of src/src/lib/git.ts: the commit publisher pushFilesAsCommit and *)
(* the object-store client functions it calls, run against a model of the  *)
(* hosting service's repositories, refs and object store; and of           *)
(* src/src/lib/tasks.ts: updateSubtaskCompleted on the tasks file.         *)
(*                                                                         *)
(* Every remote call of a publish is one atomic step on the remote state;  *)
(* the position of each publish between two awaits is pc[p].  A character  *)
(* is a one-token string, a path or a content is a sequence of characters. *)
(***************************************************************************)
EXTENDS Integers, Sequences, FiniteSets, TLC

VARIABLES
    repos,       \* remote: owner -> "absent" | "empty" | "ready" (repository RepoName)
    refs,        \* remote: owner -> branch -> commit id (NoSha: no such ref)
    commits,     \* remote object store: sequence of commits, id = index
    trees,       \* remote object store: sequence of trees, id = index
    blobs,       \* remote object store: set of blob ids (content addressed)
    pc,          \* publish -> its position in pushFilesAsCommit
    args,        \* publish -> the arguments of the call
    loc,         \* publish -> the local variables of the call
    out,         \* publish -> what the call returned or threw
    calls,       \* history: publish -> the remote calls it issued, in order
    refLog,      \* history: the ref writes the remote performed, in order
    faultBudget, \* how many more calls the environment may still fail
    tokenScopes, \* the scopes the remote reports for the credential
    validationBody, \* the body the remote sends with a 422 response
    wpc,         \* the walk: its position in fetchAllRepositoryFiles
    wcfg,        \* the walk: the config of the call
    wremote,     \* remote: the repository the walk reads and its tree listing
    wloc,        \* the walk: tree, loop index, files and skippedCount
    wlog,        \* history: what became of each entry the walk processed
    wout,        \* the walk: what the call returned or threw
    tpc,         \* the task update: its position in updateSubtaskCompleted
    topt,        \* the task update: the options of the call
    tfile,       \* the file system: the tasks file at tasksPath
    tloc,        \* the task update: tasksData, updatedTasks, subtaskFound
    tout,        \* the task update: what the call returned or threw
    tfile0,      \* history: the tasks file when the call started
    twrites      \* history: the number of writeFileSync calls

walkVars == <<wpc, wcfg, wremote, wloc, wlog, wout>>

taskVars == <<tpc, topt, tfile, tloc, tout, tfile0, twrites>>

vars == <<repos, refs, commits, trees, blobs, pc, args, loc, out, calls,
          refLog, faultBudget, tokenScopes, validationBody, walkVars,
          taskVars>>

---------------------------------------------------------------------------
(* Bounds of the model. *)

\* The longest caller file list of the publish specifications.
MaxFiles == 2

\* The longest path of the exhaustively enumerated files.
MaxPathLen == 2

\* How many remote calls the environment may fail in one behaviour.
MaxFaults == 1

\* The longest tree listing of the walk specification.
MaxTreeLen == 3

---------------------------------------------------------------------------
(* Program constants. *)

\* setTimeout(resolve, 2000) after createRepository.
PropagationDelayMs == 2000

Procs == {1, 2}

NoSha == 0

RepoName == "demo"

\* res.data.login of GET /user for the credential.
TokenLogin == "alice"

Owners == {"alice", "acme"}

\* The branch auto_init creates.
DefaultBranch == "main"

\* Branch names with a ref the remote can hold.
RefNames == {"main", "feature"}

\* A name the remote rejects as a ref name (422).
BadRefName == "bad..ref"

\* The failures that do not depend on the request: 0 is a network error,
\* which has no response; 401 a rejected credential; 404 a repository
\* deleted or hidden meanwhile; 500 a server error.
TransportStatuses == {0, 401, 404, 500}

\* The calls whose request has content the model does not look into (the
\* bytes of a blob, the tree as a whole, the commit message): the remote may
\* reject it with 422.
PayloadCalls == {"createBlob", "createTree", "createCommit"}

---------------------------------------------------------------------------
(* Characters. *)

\* What String.prototype.trim removes (a sample: space, tab, no-break space).
WhiteSpace == {" ", "TAB", "NBSP"}

\* U+0000 .. U+001F, the range \x00-\x1F of the invalidChars expression.
C0Control == {"TAB", "SOH"}

\* Unicode control characters: C0 and U+007F .. U+009F.
ControlChars == C0Control \cup {"DEL"}

\* The punctuation of the invalidChars expression.
InvalidPunct == {"<", ">", ":", "\"", "|", "?", "*"}

\* The characters paths are drawn from.
PathAlphabet == {"a", "/", "\\", " ", "NBSP", "TAB", "SOH", "<", "DEL"}

RECURSIVE TrimStart(_)
TrimStart(s) ==
    IF s # <<>> /\ Head(s) \in WhiteSpace THEN TrimStart(Tail(s)) ELSE s

RECURSIVE TrimEnd(_)
TrimEnd(s) ==
    IF s # <<>> /\ s[Len(s)] \in WhiteSpace
    THEN TrimEnd(SubSeq(s, 1, Len(s) - 1))
    ELSE s

\* String.prototype.trim
Trim(s) == TrimEnd(TrimStart(s))

\* invalidChars.test(path) with invalidChars = /[<>:"|?*\x00-\x1F]/
InvalidCharsTest(path) ==
    \E i \in 1..Len(path) : path[i] \in InvalidPunct \cup C0Control

\* path.replace(/\\/g, '/')
ReplaceBackslashes(path) ==
    [i \in 1..Len(path) |-> IF path[i] = "\\" THEN "/" ELSE path[i]]

---------------------------------------------------------------------------
(* The file validation of pushFilesAsCommit. *)

\* Mutant of FileFilter: the invalidChars test left out.
FileFilterNoCharTest(file) ==
    /\ ~(file.content = <<>> \/ Len(Trim(file.content)) = 0)
    /\ ~(file.path = <<>> \/ Len(Trim(file.path)) = 0)

\* The filter callback: TRUE keeps the file.
FileFilter(file) ==
    /\ ~(file.content = <<>> \/ Len(Trim(file.content)) = 0)
    /\ ~(file.path = <<>> \/ Len(Trim(file.path)) = 0)
    /\ ~InvalidCharsTest(file.path)

\* The map callback.
NormalizeFile(file) ==
    [path |-> Trim(ReplaceBackslashes(file.path)), content |-> file.content]

RECURSIVE MapNormalize(_)
MapNormalize(fs) ==
    IF fs = <<>> THEN <<>>
    ELSE <<NormalizeFile(Head(fs))>> \o MapNormalize(Tail(fs))

\* Mutant of ValidateFiles: the kept files in the reverse of their order.
ValidateFilesReversed(files) ==
    LET kept == MapNormalize(SelectSeq(files, FileFilter))
    IN  [i \in 1..Len(kept) |-> kept[Len(kept) + 1 - i]]

\* files.filter(...).map(...)
ValidateFiles(files) == MapNormalize(SelectSeq(files, FileFilter))

---------------------------------------------------------------------------
(* Values. *)

\* A message is the sequence of the pieces it was put together from.
\* error.response.data of a response without a body of interest.
NoData == [message |-> "", errors |-> <<>>]

\* One entry of the errors array of a 422 body: "" is a property left out.
ErrorEntry(resource, field, code, message) ==
    [resource |-> resource, field |-> field, code |-> code,
     message |-> message]

\* The bodies a 422 response may carry: with and without a message, with
\* none, one or two entries, an entry with a code only, with a message and
\* no resource, with both, with neither.
ValidationBodies ==
    {NoData,
     [message |-> "Validation Failed",
      errors |-> <<ErrorEntry("Tree", "tree.path", "invalid", "")>>],
     [message |-> "Validation Failed",
      errors |-> <<ErrorEntry("", "sha", "", "sha is not valid"),
                   ErrorEntry("Commit", "tree", "missing", "tree is missing")>>],
     [message |-> "",
      errors |-> <<ErrorEntry("Ref", "ref", "", "")>>]}

\* error.message of an axios error.
AxiosMessage(status) ==
    IF status = 0 THEN <<"Network Error">>
    ELSE <<"Request failed with status code ", ToString(status)>>

\* An error thrown by axios: error.response.status is status and
\* error.response.data the body; a network error has no response and
\* carries status 0.
AxiosError(status) ==
    [type |-> "AxiosError", status |-> status,
     message |-> AxiosMessage(status),
     data |-> IF status = 422 THEN validationBody ELSE NoData]

\* new Error(message): no response.
PlainError(message) ==
    [type |-> "Error", status |-> 0, message |-> message, data |-> NoData]

NoError == [type |-> "none", status |-> 0, message |-> <<>>, data |-> NoData]

NoValue == [commitSHA |-> NoSha, repoUrl |-> <<>>, branchUrl |-> <<>>]

Pending == [state |-> "pending", error |-> NoError, value |-> NoValue]

Threw(e) == [state |-> "threw", error |-> e, value |-> NoValue]

Returned(v) == [state |-> "returned", error |-> NoError, value |-> v]

\* One entry of the call history.
Call(op, status, arg) == [op |-> op, status |-> status, arg |-> arg]

NoArg == [none |-> TRUE]

\* The failures the environment may answer a call of op with, whatever the
\* state of the remote.
Injectable(op) ==
    TransportStatuses \cup (IF op \in PayloadCalls THEN {422} ELSE {})

\* The statuses the environment may answer the next call with: 200 lets the
\* remote decide, anything else is a failure it injects.
Answers(op) == {200} \cup (IF faultBudget > 0 THEN Injectable(op) ELSE {})

Spend(answer) == IF answer = 200 THEN faultBudget ELSE faultBudget - 1

---------------------------------------------------------------------------
(* The hosting service. *)

\* GET /repos/{owner}/{repo}
RemoteGetRepo(owner) == IF repos[owner] = "absent" THEN 404 ELSE 200

\* GET /repos/{owner}/{repo}/git/refs/heads/{branch}
RemoteGetRef(owner, branch) ==
    IF repos[owner] = "absent" THEN [status |-> 404, sha |-> NoSha]
    ELSE IF repos[owner] = "empty" THEN [status |-> 409, sha |-> NoSha]
    ELSE IF branch \notin RefNames \/ refs[owner][branch] = NoSha
         THEN [status |-> 404, sha |-> NoSha]
    ELSE [status |-> 200, sha |-> refs[owner][branch]]

\* GET /repos/{owner}/{repo}/git/commits/{sha}
RemoteGetCommit(owner, sha) ==
    IF repos[owner] = "absent" THEN [status |-> 404, tree |-> NoSha]
    ELSE IF repos[owner] = "empty" THEN [status |-> 409, tree |-> NoSha]
    ELSE IF sha \notin 1..Len(commits) THEN [status |-> 404, tree |-> NoSha]
    ELSE [status |-> 200, tree |-> commits[sha].tree]

\* POST /repos/{owner}/{repo}/git/refs, the refs being r
RemoteCreateRef(r, owner, branch, sha) ==
    IF repos[owner] = "absent" THEN 404
    ELSE IF repos[owner] = "empty" THEN 409
    ELSE IF branch \notin RefNames THEN 422
    ELSE IF sha \notin 1..Len(commits) THEN 422
    ELSE IF r[owner][branch] # NoSha THEN 422
    ELSE 201

\* The 422 of POST .../git/refs that says the reference already exists.
RefAlreadyExists(r, owner, branch, sha) ==
    /\ RemoteCreateRef(r, owner, branch, sha) = 422
    /\ branch \in RefNames
    /\ sha \in 1..Len(commits)

\* PATCH /repos/{owner}/{repo}/git/refs/heads/{branch}; with force the
\* remote moves the ref wherever it points, without force only forward.
RemoteUpdateRef(owner, branch, sha, force) ==
    IF repos[owner] = "absent" THEN 404
    ELSE IF repos[owner] = "empty" THEN 409
    ELSE IF branch \notin RefNames \/ refs[owner][branch] = NoSha THEN 422
    ELSE IF sha \notin 1..Len(commits) THEN 422
    ELSE IF ~force /\ commits[sha].parent # refs[owner][branch] THEN 422
    ELSE 200

\* POST /user/repos
RemoteCreateRepo(login) == IF repos[login] # "absent" THEN 422 ELSE 201

\* A path the remote rejects in a tree: an empty component.
MalformedPath(path) ==
    \/ path = <<>>
    \/ path[1] = "/"
    \/ path[Len(path)] = "/"
    \/ \E i \in 1..(Len(path) - 1) : path[i] = "/" /\ path[i + 1] = "/"

\* POST /repos/{owner}/{repo}/git/trees
RemoteCreateTree(owner, baseTree, entries) ==
    IF repos[owner] = "absent" THEN 404
    ELSE IF repos[owner] = "empty" THEN 409
    ELSE IF baseTree \notin 1..Len(trees) THEN 422
    ELSE IF \E i \in 1..Len(entries) : MalformedPath(entries[i].path) THEN 422
    ELSE 201

\* POST /repos/{owner}/{repo}/git/commits
RemoteCreateCommit(owner, parent, tree) ==
    IF repos[owner] = "absent" THEN 404
    ELSE IF repos[owner] = "empty" THEN 409
    ELSE IF parent \notin 1..Len(commits) \/ tree \notin 1..Len(trees) THEN 422
    ELSE 201

\* POST /repos/{owner}/{repo}/git/blobs
RemoteCreateBlob(owner) ==
    IF repos[owner] = "absent" THEN 404
    ELSE IF repos[owner] = "empty" THEN 409
    ELSE 201

\* The id the store gives a blob: its content.
BlobId(content) == content

---------------------------------------------------------------------------
(* pushFilesAsCommit: the parts every step shares. *)

\* JSON.stringify(e) of an entry of errors: the properties it has.
StringifyEntry(e) ==
    <<"{">>
    \o (IF e.resource # "" THEN <<"resource", e.resource>> ELSE <<>>)
    \o (IF e.field # "" THEN <<"field", e.field>> ELSE <<>>)
    \o (IF e.code # "" THEN <<"code", e.code>> ELSE <<>>)
    \o (IF e.message # "" THEN <<"message", e.message>> ELSE <<>>)
    \o <<"}">>

\* `${e.resource || 'unknown'}: ${e.message || e.code || JSON.stringify(e)}`
ErrorDetail(e) ==
    <<IF e.resource # "" THEN e.resource ELSE "unknown", ": ">>
    \o (IF e.message # "" THEN <<e.message>>
        ELSE IF e.code # "" THEN <<e.code>>
        ELSE StringifyEntry(e))

\* errors.map(...).join(', ')
RECURSIVE JoinDetails(_)
JoinDetails(errors) ==
    IF errors = <<>> THEN <<>>
    ELSE IF Len(errors) = 1 THEN ErrorDetail(errors[1])
    ELSE ErrorDetail(errors[1]) \o <<", ">> \o JoinDetails(Tail(errors))

\* Mutant of DetailedError: the details left out.
DetailedErrorBrief(data) ==
    <<"GitHub API validation error: ",
      IF data.message # "" THEN data.message ELSE "Validation failed">>

\* detailedError of the catch block, for the body of the 422 response.
DetailedError(data) ==
    <<"GitHub API validation error: ",
      IF data.message # "" THEN data.message ELSE "Validation failed">>
    \o (IF Len(data.errors) > 0
        THEN <<"\nDetails: ">> \o JoinDetails(data.errors)
        ELSE <<>>)

\* The catch block of pushFilesAsCommit: what it rethrows for error e.  A
\* 409 is logged and rethrown as it is.
Catch(e) ==
    IF e.status = 422
    THEN PlainError(DetailedError(e.data))
    ELSE e

\* The publish moves on to step next with locals l, having issued call c.
Advance(p, next, l, c) ==
    /\ pc' = [pc EXCEPT ![p] = next]
    /\ loc' = [loc EXCEPT ![p] = l]
    /\ calls' = [calls EXCEPT ![p] = Append(@, c)]
    /\ out' = out

\* Call c threw e inside the try block: the publish ends, rethrowing.
Throw(p, e, c) ==
    /\ pc' = [pc EXCEPT ![p] = "Failed"]
    /\ out' = [out EXCEPT ![p] = Threw(Catch(e))]
    /\ calls' = [calls EXCEPT ![p] = Append(@, c)]
    /\ loc' = loc

RemoteUnchanged == UNCHANGED <<repos, refs, commits, trees, blobs, refLog>>

---------------------------------------------------------------------------
(* 0. verifyToken *)

\* What verifyToken throws when GET /user fails: a new Error, whatever the
\* failure was.
verifyTokenError(status) ==
    PlainError(<<"GitHub token verification failed: ">>
               \o AxiosMessage(status))

\* Mutant of verifyTokenThrows: a failed GET /user is let through.
verifyTokenThrowsNever(status) == FALSE

\* verifyToken throws when GET /user fails, whatever the failure.
verifyTokenThrows(status) == status # 200

\* tokenInfo.login.toLowerCase() !== owner.toLowerCase(); the names of the
\* model are in lower case.
OwnerMismatch(tokenInfo, owner) == tokenInfo.login # owner

\* !hasRepoScope && !hasPublicRepoScope
MissingScope(tokenInfo) ==
    "repo" \notin tokenInfo.scopes /\ "public_repo" \notin tokenInfo.scopes

\* The warnings pushFilesAsCommit logs about the credential.
TokenWarnings(tokenInfo, owner) ==
    (IF OwnerMismatch(tokenInfo, owner) THEN {"owner mismatch"} ELSE {})
    \cup (IF MissingScope(tokenInfo) THEN {"missing scope"} ELSE {})

\* Mutant of AfterVerify: a warning ends the publish.
AfterVerifyStrict(warnings) ==
    IF warnings = {} THEN "CheckingRepository" ELSE "Failed"

\* The step after the credential was verified: the warnings are only
\* logged (console.warn).
AfterVerify(warnings) == "CheckingRepository"

VerifyToken(p) ==
    /\ pc[p] = "VerifyingCredential"
    /\ \E answer \in Answers("verifyToken") :
         /\ faultBudget' = Spend(answer)
         /\ IF ~verifyTokenThrows(answer)
            THEN LET tokenInfo == [login |-> TokenLogin,
                                   scopes |-> tokenScopes]
                 IN  Advance(p,
                             AfterVerify(TokenWarnings(tokenInfo,
                                                       args[p].owner)),
                             [loc[p] EXCEPT !.tokenInfo = tokenInfo],
                             Call("verifyToken", answer, NoArg))
            ELSE Throw(p, verifyTokenError(answer),
                       Call("verifyToken", answer, NoArg))
    /\ RemoteUnchanged
    /\ UNCHANGED <<args, tokenScopes, validationBody, walkVars, taskVars>>

---------------------------------------------------------------------------
(* 1. repositoryExists, createRepository and the wait *)

\* Mutant of repositoryExists: every failure read as "not there".
repositoryExistsLenient(status) ==
    IF status = 200 THEN "true" ELSE "false"

\* repositoryExists: "true", "false" or "throw" for the status of the GET.
repositoryExists(status) ==
    IF status = 200 THEN "true"
    ELSE IF status = 404 THEN "false"
    ELSE "throw"

\* Mutant of AfterCheck: the check is repeated until the repository exists.
AfterCheckPolling(exists) ==
    IF exists THEN "ResolvingBaseBranch" ELSE "CheckingRepository"

\* The step after the existence check.
AfterCheck(exists) ==
    IF exists THEN "ResolvingBaseBranch" ELSE "CreatingRepository"

CheckRepository(p) ==
    /\ pc[p] = "CheckingRepository"
    /\ \E answer \in Answers("repositoryExists") :
         LET status == IF answer = 200 THEN RemoteGetRepo(args[p].owner)
                       ELSE answer
             res == repositoryExists(status)
             c == Call("repositoryExists", status, [owner |-> args[p].owner])
         IN  /\ faultBudget' = Spend(answer)
             /\ IF res = "throw"
                THEN Throw(p, AxiosError(status), c)
                ELSE Advance(p, AfterCheck(res = "true"),
                             [loc[p] EXCEPT !.exists = (res = "true")], c)
    /\ RemoteUnchanged
    /\ UNCHANGED <<args, tokenScopes, validationBody, walkVars, taskVars>>

\* The owner createRepository creates under: the org when given, else the
\* credential's user.
createRepositoryOwner(org) == IF org # "" THEN org ELSE TokenLogin

\* Mutant of createRepositoryRequest: a private repository, not initialized.
createRepositoryRequestBare ==
    [name |-> RepoName, private |-> TRUE, auto_init |-> FALSE, org |-> ""]

\* The request pushFilesAsCommit makes of createRepository: name, isPrivate
\* false, no org; createRepository adds auto_init.
createRepositoryRequest ==
    [name |-> RepoName, private |-> FALSE, auto_init |-> TRUE, org |-> ""]

CreateRepository(p) ==
    /\ pc[p] = "CreatingRepository"
    /\ \E answer \in Answers("createRepository") :
         LET req == createRepositoryRequest
             o == createRepositoryOwner(req.org)
             status == IF answer = 200 THEN RemoteCreateRepo(o) ELSE answer
             c == Call("createRepository", status, req)
             newTree == Len(trees) + 1
             newCommit == Len(commits) + 1
         IN  /\ faultBudget' = Spend(answer)
             /\ IF status = 201
                THEN /\ repos' = [repos EXCEPT ![o] =
                                     IF req.auto_init THEN "ready" ELSE "empty"]
                     /\ trees' = IF req.auto_init
                                 THEN Append(trees, [base |-> NoSha,
                                                     entries |-> <<>>])
                                 ELSE trees
                     /\ commits' = IF req.auto_init
                                   THEN Append(commits,
                                               [parent |-> NoSha,
                                                tree |-> newTree,
                                                message |-> "Initial commit"])
                                   ELSE commits
                     /\ refs' = IF req.auto_init
                                THEN [refs EXCEPT ![o][DefaultBranch] = newCommit]
                                ELSE refs
                     /\ refLog' = IF req.auto_init
                                  THEN Append(refLog,
                                              [by |-> p, op |-> "createRepository",
                                               owner |-> o,
                                               branch |-> DefaultBranch,
                                               sha |-> newCommit])
                                  ELSE refLog
                     /\ Advance(p, "Waiting", loc[p], c)
                ELSE /\ UNCHANGED <<repos, trees, commits, refs, refLog>>
                     /\ Throw(p, AxiosError(status), c)
    /\ UNCHANGED <<blobs, args, tokenScopes, validationBody, walkVars, taskVars>>

\* await new Promise(resolve => setTimeout(resolve, 2000))
Wait(p) ==
    /\ pc[p] = "Waiting"
    /\ Advance(p, "ResolvingBaseBranch", loc[p],
               Call("wait", 200, [ms |-> PropagationDelayMs]))
    /\ RemoteUnchanged
    /\ UNCHANGED <<args, tokenScopes, faultBudget, validationBody, walkVars, taskVars>>

---------------------------------------------------------------------------
(* 2. getBranchSHA and createBranch *)

\* The step after the base branch head is read: if (newBranch) ...
AfterBranchHead(newBranch) ==
    IF newBranch # "" THEN "CreatingBranch" ELSE "ResolvingBaseTree"

GetBranchSHA(p) ==
    /\ pc[p] = "ResolvingBaseBranch"
    /\ \E answer \in Answers("getBranchSHA") :
         LET res == RemoteGetRef(args[p].owner, loc[p].baseBranch)
             status == IF answer = 200 THEN res.status ELSE answer
             c == Call("getBranchSHA", status,
                       [owner |-> args[p].owner, branch |-> loc[p].baseBranch])
         IN  /\ faultBudget' = Spend(answer)
             /\ IF status = 200
                THEN Advance(p, AfterBranchHead(args[p].newBranch),
                             [loc[p] EXCEPT !.baseSHA = res.sha], c)
                ELSE Throw(p, AxiosError(status), c)
    /\ RemoteUnchanged
    /\ UNCHANGED <<args, tokenScopes, validationBody, walkVars, taskVars>>

\* Mutant of createBranchIgnores: every error is rethrown.
createBranchIgnoresNothing(status) == FALSE

\* The catch block of createBranch: TRUE when the error is ignored.
createBranchIgnores(status) == status = 422

\* Mutant of createBranch: a create that moves a branch that exists.
createBranchMoving(r, owner, newBranch, baseSHA, status) ==
    [refs |-> IF status = 201 \/ RefAlreadyExists(r, owner, newBranch, baseSHA)
              THEN [r EXCEPT ![owner][newBranch] = baseSHA]
              ELSE r,
     threw |-> status # 201 /\ status # 422]

\* Mutant of createBranch: a branch that is created is taken back.
createBranchUndone(r, owner, newBranch, baseSHA, status) ==
    [refs |-> r,
     threw |-> status # 201 /\ ~createBranchIgnores(status)]

\* createBranch: the refs after the call and whether it threw, for the
\* status the POST was answered with.
createBranch(r, owner, newBranch, baseSHA, status) ==
    [refs |-> IF status = 201
              THEN [r EXCEPT ![owner][newBranch] = baseSHA]
              ELSE r,
     threw |-> status # 201 /\ ~createBranchIgnores(status)]

\* Mutant of TargetBranch: baseBranch is not reassigned.
TargetBranchKept(baseBranch, newBranch) == baseBranch

\* baseBranch = newBranch: the branch the rest of the publish works on.
TargetBranch(baseBranch, newBranch) ==
    IF newBranch # "" THEN newBranch ELSE baseBranch

CreateBranch(p) ==
    /\ pc[p] = "CreatingBranch"
    /\ \E answer \in Answers("createBranch") :
         LET o == args[p].owner
             b == args[p].newBranch
             status == IF answer = 200
                       THEN RemoteCreateRef(refs, o, b, loc[p].baseSHA)
                       ELSE answer
             res == createBranch(refs, o, b, loc[p].baseSHA, status)
             c == Call("createBranch", status,
                       [owner |-> o, branch |-> b, sha |-> loc[p].baseSHA,
                        alreadyExists |->
                            answer = 200
                            /\ RefAlreadyExists(refs, o, b, loc[p].baseSHA)])
         IN  /\ faultBudget' = Spend(answer)
             /\ refs' = res.refs
             /\ refLog' = IF status = 201
                          THEN Append(refLog,
                                      [by |-> p, op |-> "createBranch",
                                       owner |-> o, branch |-> b,
                                       sha |-> loc[p].baseSHA])
                          ELSE refLog
             /\ IF res.threw
                THEN Throw(p, AxiosError(status), c)
                ELSE Advance(p, "ResolvingBaseTree",
                             [loc[p] EXCEPT !.baseBranch =
                                  TargetBranch(loc[p].baseBranch, b)], c)
    /\ UNCHANGED <<repos, commits, trees, blobs, args, tokenScopes, validationBody, walkVars, taskVars>>

---------------------------------------------------------------------------
(* 3. the tree of the base commit, and the validation *)

GetCommitTree(p) ==
    /\ pc[p] = "ResolvingBaseTree"
    /\ \E answer \in Answers("getCommit") :
         LET res == RemoteGetCommit(args[p].owner, loc[p].baseSHA)
             status == IF answer = 200 THEN res.status ELSE answer
             c == Call("getCommit", status,
                       [owner |-> args[p].owner, sha |-> loc[p].baseSHA])
         IN  /\ faultBudget' = Spend(answer)
             /\ IF status = 200
                THEN Advance(p, "ValidatingFiles",
                             [loc[p] EXCEPT !.baseTreeSHA = res.tree], c)
                ELSE Throw(p, AxiosError(status), c)
    /\ RemoteUnchanged
    /\ UNCHANGED <<args, tokenScopes, validationBody, walkVars, taskVars>>

\* Mutant of NoValidFiles: the empty check left out.
NoValidFilesNever(validatedFiles) == FALSE

\* if (validatedFiles.length === 0) throw ...
NoValidFiles(validatedFiles) == Len(validatedFiles) = 0

\* The position in createTree with n of total files done: the for loop
\* creates one blob per file, then the tree is posted.
AfterBlob(n, total) == IF n < total THEN "CreatingBlobs" ELSE "CreatingTree"

Validate(p) ==
    /\ pc[p] = "ValidatingFiles"
    /\ LET validatedFiles == ValidateFiles(args[p].files)
       IN  IF NoValidFiles(validatedFiles)
           THEN /\ pc' = [pc EXCEPT ![p] = "Failed"]
                /\ out' = [out EXCEPT ![p] = Threw(Catch(PlainError(
                              <<"No valid files to commit after validation">>)))]
                /\ loc' = [loc EXCEPT ![p].validatedFiles = validatedFiles]
           ELSE /\ pc' = [pc EXCEPT ![p] = AfterBlob(0, Len(validatedFiles))]
                /\ out' = out
                /\ loc' = [loc EXCEPT ![p].validatedFiles = validatedFiles]
    /\ RemoteUnchanged
    /\ UNCHANGED <<args, calls, tokenScopes, faultBudget, validationBody, walkVars, taskVars>>

---------------------------------------------------------------------------
(* 4. createTree: one createBlob per file, then the tree *)

\* Mutant of TreeEntry: the file entered as an executable.
TreeEntryExecutable(file, sha) ==
    [path |-> file.path, mode |-> "100755", type |-> "blob", sha |-> sha]

\* The entry createTree pushes for a file whose blob has id sha.
TreeEntry(file, sha) ==
    [path |-> file.path, mode |-> "100644", type |-> "blob", sha |-> sha]

CreateBlob(p) ==
    /\ pc[p] = "CreatingBlobs"
    /\ \E answer \in Answers("createBlob") :
         LET file == loc[p].validatedFiles[Len(loc[p].tree) + 1]
             status == IF answer = 200 THEN RemoteCreateBlob(args[p].owner)
                       ELSE answer
             sha == BlobId(file.content)
             c == Call("createBlob", status,
                       [owner |-> args[p].owner, content |-> file.content])
         IN  /\ faultBudget' = Spend(answer)
             /\ IF status = 201
                THEN /\ blobs' = blobs \cup {sha}
                     /\ Advance(p, AfterBlob(Len(loc[p].tree) + 1,
                                             Len(loc[p].validatedFiles)),
                                [loc[p] EXCEPT !.tree =
                                     Append(@, TreeEntry(file, sha))], c)
                ELSE /\ blobs' = blobs
                     /\ Throw(p, AxiosError(status), c)
    /\ UNCHANGED <<repos, refs, commits, trees, refLog, args, tokenScopes, validationBody, walkVars, taskVars>>

CreateTree(p) ==
    /\ pc[p] = "CreatingTree"
    /\ \E answer \in Answers("createTree") :
         LET o == args[p].owner
             status == IF answer = 200
                       THEN RemoteCreateTree(o, loc[p].baseTreeSHA, loc[p].tree)
                       ELSE answer
             c == Call("createTree", status,
                       [owner |-> o, base_tree |-> loc[p].baseTreeSHA,
                        tree |-> loc[p].tree])
         IN  /\ faultBudget' = Spend(answer)
             /\ IF status = 201
                THEN /\ trees' = Append(trees, [base |-> loc[p].baseTreeSHA,
                                                entries |-> loc[p].tree])
                     /\ Advance(p, "CreatingCommit",
                                [loc[p] EXCEPT !.newTreeSHA = Len(trees) + 1], c)
                ELSE /\ trees' = trees
                     /\ Throw(p, AxiosError(status), c)
    /\ UNCHANGED <<repos, refs, commits, blobs, refLog, args, tokenScopes, validationBody, walkVars, taskVars>>

---------------------------------------------------------------------------
(* 5. createCommit *)

\* Mutant of CommitParent: the first commit of the repository.
CommitParentRoot(l) == 1

\* parentSHA = baseSHA
CommitParent(l) == l.baseSHA

\* parents: [parentSHA] in the body of the POST
CommitParents(parentSHA) == <<parentSHA>>

CreateCommit(p) ==
    /\ pc[p] = "CreatingCommit"
    /\ \E answer \in Answers("createCommit") :
         LET o == args[p].owner
             parent == CommitParent(loc[p])
             status == IF answer = 200
                       THEN RemoteCreateCommit(o, parent, loc[p].newTreeSHA)
                       ELSE answer
             c == Call("createCommit", status,
                       [owner |-> o, parent |-> parent,
                        parents |-> CommitParents(parent),
                        tree |-> loc[p].newTreeSHA])
         IN  /\ faultBudget' = Spend(answer)
             /\ IF status = 201
                THEN /\ commits' = Append(commits,
                                          [parent |-> parent,
                                           tree |-> loc[p].newTreeSHA,
                                           message |-> args[p].commitMessage])
                     /\ Advance(p, "UpdatingRef",
                                [loc[p] EXCEPT !.commitSHA = Len(commits) + 1], c)
                ELSE /\ commits' = commits
                     /\ Throw(p, AxiosError(status), c)
    /\ UNCHANGED <<repos, refs, trees, blobs, refLog, args, tokenScopes, validationBody, walkVars, taskVars>>

---------------------------------------------------------------------------
(* 6. updateBranch and the result *)

\* force: true in the body of the PATCH
updateBranchForce == TRUE

\* Mutant of UpdateTarget: the default branch, whatever was requested.
UpdateTargetDefault(l) == DefaultBranch

\* The branch whose ref step 6 updates: baseBranch, as reassigned.
UpdateTarget(l) == l.baseBranch

\* Mutant of Result: the branch URL of the base branch as passed in.
ResultOfDefaultBranch(owner, l) ==
    [commitSHA |-> l.commitSHA,
     repoUrl |-> <<"https://github.com", owner, RepoName>>,
     branchUrl |-> <<"https://github.com", owner, RepoName, "tree",
                     DefaultBranch>>]

\* The value pushFilesAsCommit returns; a URL is the sequence of its parts.
Result(owner, l) ==
    [commitSHA |-> l.commitSHA,
     repoUrl |-> <<"https://github.com", owner, RepoName>>,
     branchUrl |-> <<"https://github.com", owner, RepoName, "tree",
                     l.baseBranch>>]

UpdateBranch(p) ==
    /\ pc[p] = "UpdatingRef"
    /\ \E answer \in Answers("updateBranch") :
         LET o == args[p].owner
             b == UpdateTarget(loc[p])
             status == IF answer = 200
                       THEN RemoteUpdateRef(o, b, loc[p].commitSHA,
                                            updateBranchForce)
                       ELSE answer
             c == Call("updateBranch", status,
                       [owner |-> o, branch |-> b, sha |-> loc[p].commitSHA,
                        force |-> updateBranchForce])
         IN  /\ faultBudget' = Spend(answer)
             /\ IF status = 200
                THEN /\ refs' = [refs EXCEPT ![o][b] = loc[p].commitSHA]
                     /\ refLog' = Append(refLog,
                                         [by |-> p, op |-> "updateBranch",
                                          owner |-> o, branch |-> b,
                                          sha |-> loc[p].commitSHA])
                     /\ pc' = [pc EXCEPT ![p] = "Done"]
                     /\ out' = [out EXCEPT ![p] = Returned(Result(o, loc[p]))]
                     /\ calls' = [calls EXCEPT ![p] = Append(@, c)]
                     /\ loc' = loc
                ELSE /\ UNCHANGED <<refs, refLog>>
                     /\ Throw(p, AxiosError(status), c)
    /\ UNCHANGED <<repos, commits, trees, blobs, args, tokenScopes, validationBody, walkVars, taskVars>>

---------------------------------------------------------------------------
(* commitFilesToBranch: the five calls, with no try block around them. *)

\* Call c threw e: commitFilesToBranch has no catch, the error leaves it
\* as it is.
CommitThrow(p, e, c) ==
    /\ pc' = [pc EXCEPT ![p] = "Failed"]
    /\ out' = [out EXCEPT ![p] = Threw(e)]
    /\ calls' = [calls EXCEPT ![p] = Append(@, c)]
    /\ loc' = loc

\* The position in createTree with n of the total files done.
CommitAfterBlob(n, total) ==
    IF n < total THEN "CommitCreatingBlobs" ELSE "CommitCreatingTree"

\* The files commitFilesToBranch hands to createTree.
CommitFiles(files) == files

\* 1. Get Tip
CommitGetTip(p) ==
    /\ pc[p] = "CommitReadingTip"
    /\ \E answer \in Answers("getBranchSHA") :
         LET res == RemoteGetRef(args[p].owner, args[p].baseBranch)
             status == IF answer = 200 THEN res.status ELSE answer
             c == Call("getBranchSHA", status,
                       [owner |-> args[p].owner, branch |-> args[p].baseBranch])
         IN  /\ faultBudget' = Spend(answer)
             /\ IF status = 200
                THEN Advance(p, "CommitReadingTree",
                             [loc[p] EXCEPT !.baseSHA = res.sha], c)
                ELSE CommitThrow(p, AxiosError(status), c)
    /\ RemoteUnchanged
    /\ UNCHANGED <<args, tokenScopes, validationBody, walkVars, taskVars>>

\* 2. Get Tree
CommitGetTree(p) ==
    /\ pc[p] = "CommitReadingTree"
    /\ \E answer \in Answers("getCommit") :
         LET res == RemoteGetCommit(args[p].owner, loc[p].baseSHA)
             status == IF answer = 200 THEN res.status ELSE answer
             c == Call("getCommit", status,
                       [owner |-> args[p].owner, sha |-> loc[p].baseSHA])
         IN  /\ faultBudget' = Spend(answer)
             /\ IF status = 200
                THEN Advance(p, CommitAfterBlob(0, Len(CommitFiles(args[p].files))),
                             [loc[p] EXCEPT !.baseTreeSHA = res.tree], c)
                ELSE CommitThrow(p, AxiosError(status), c)
    /\ RemoteUnchanged
    /\ UNCHANGED <<args, tokenScopes, validationBody, walkVars, taskVars>>

\* 3. Create New Tree: one createBlob per file
CommitCreateBlob(p) ==
    /\ pc[p] = "CommitCreatingBlobs"
    /\ \E answer \in Answers("createBlob") :
         LET files == CommitFiles(args[p].files)
             file == files[Len(loc[p].tree) + 1]
             status == IF answer = 200 THEN RemoteCreateBlob(args[p].owner)
                       ELSE answer
             sha == BlobId(file.content)
             c == Call("createBlob", status,
                       [owner |-> args[p].owner, content |-> file.content])
         IN  /\ faultBudget' = Spend(answer)
             /\ IF status = 201
                THEN /\ blobs' = blobs \cup {sha}
                     /\ Advance(p, CommitAfterBlob(Len(loc[p].tree) + 1,
                                                   Len(files)),
                                [loc[p] EXCEPT !.tree =
                                     Append(@, TreeEntry(file, sha))], c)
                ELSE /\ blobs' = blobs
                     /\ CommitThrow(p, AxiosError(status), c)
    /\ UNCHANGED <<repos, refs, commits, trees, refLog, args, tokenScopes, validationBody, walkVars, taskVars>>

\* 3. Create New Tree: the POST of the tree
CommitCreateTree(p) ==
    /\ pc[p] = "CommitCreatingTree"
    /\ \E answer \in Answers("createTree") :
         LET o == args[p].owner
             status == IF answer = 200
                       THEN RemoteCreateTree(o, loc[p].baseTreeSHA, loc[p].tree)
                       ELSE answer
             c == Call("createTree", status,
                       [owner |-> o, base_tree |-> loc[p].baseTreeSHA,
                        tree |-> loc[p].tree])
         IN  /\ faultBudget' = Spend(answer)
             /\ IF status = 201
                THEN /\ trees' = Append(trees, [base |-> loc[p].baseTreeSHA,
                                                entries |-> loc[p].tree])
                     /\ Advance(p, "CommitCreatingCommit",
                                [loc[p] EXCEPT !.newTreeSHA = Len(trees) + 1], c)
                ELSE /\ trees' = trees
                     /\ CommitThrow(p, AxiosError(status), c)
    /\ UNCHANGED <<repos, refs, commits, blobs, refLog, args, tokenScopes, validationBody, walkVars, taskVars>>

\* 4. Create Commit
CommitCreateCommit(p) ==
    /\ pc[p] = "CommitCreatingCommit"
    /\ \E answer \in Answers("createCommit") :
         LET o == args[p].owner
             parent == loc[p].baseSHA
             status == IF answer = 200
                       THEN RemoteCreateCommit(o, parent, loc[p].newTreeSHA)
                       ELSE answer
             c == Call("createCommit", status,
                       [owner |-> o, parent |-> parent,
                        parents |-> CommitParents(parent),
                        tree |-> loc[p].newTreeSHA])
         IN  /\ faultBudget' = Spend(answer)
             /\ IF status = 201
                THEN /\ commits' = Append(commits,
                                          [parent |-> parent,
                                           tree |-> loc[p].newTreeSHA,
                                           message |-> args[p].commitMessage])
                     /\ Advance(p, "CommitUpdatingRef",
                                [loc[p] EXCEPT !.commitSHA = Len(commits) + 1], c)
                ELSE /\ commits' = commits
                     /\ CommitThrow(p, AxiosError(status), c)
    /\ UNCHANGED <<repos, refs, trees, blobs, refLog, args, tokenScopes, validationBody, walkVars, taskVars>>

\* 5. Update Ref, and return commitSHA
CommitUpdateRef(p) ==
    /\ pc[p] = "CommitUpdatingRef"
    /\ \E answer \in Answers("updateBranch") :
         LET o == args[p].owner
             b == args[p].baseBranch
             status == IF answer = 200
                       THEN RemoteUpdateRef(o, b, loc[p].commitSHA,
                                            updateBranchForce)
                       ELSE answer
             c == Call("updateBranch", status,
                       [owner |-> o, branch |-> b, sha |-> loc[p].commitSHA,
                        force |-> updateBranchForce])
         IN  /\ faultBudget' = Spend(answer)
             /\ IF status = 200
                THEN /\ refs' = [refs EXCEPT ![o][b] = loc[p].commitSHA]
                     /\ refLog' = Append(refLog,
                                         [by |-> p, op |-> "updateBranch",
                                          owner |-> o, branch |-> b,
                                          sha |-> loc[p].commitSHA])
                     /\ pc' = [pc EXCEPT ![p] = "Done"]
                     /\ out' = [out EXCEPT ![p] = Returned(
                                   [NoValue EXCEPT !.commitSHA = loc[p].commitSHA])]
                     /\ calls' = [calls EXCEPT ![p] = Append(@, c)]
                     /\ loc' = loc
                ELSE /\ UNCHANGED <<refs, refLog>>
                     /\ CommitThrow(p, AxiosError(status), c)
    /\ UNCHANGED <<repos, commits, trees, blobs, args, tokenScopes, validationBody, walkVars, taskVars>>

---------------------------------------------------------------------------
(* fetchAllRepositoryFiles: the tree walker. *)

\* maxFileSize = 1024 * 1024
DefaultMaxFileSize == 1048576

\* The value undefined.
Undefined == "undefined"

\* An optional property of the config: None when the caller left it out,
\* Some(v) when it is v.
None == <<>>

Some(v) == <<v>>

Given(option) == option # None

Value(option) == option[1]

\* Mutant of SplitPop: nothing for a path without '.'.
SplitPopOrNothing(path) ==
    IF \A i \in 1..Len(path) : path[i] # "." THEN <<>>
    ELSE LET last == CHOOSE i \in 1..Len(path) :
                         /\ path[i] = "."
                         /\ \A j \in (i + 1)..Len(path) : path[j] # "."
         IN  SubSeq(path, last + 1, Len(path))

\* item.path.split('.').pop(): the characters after the last '.', the
\* whole path when it has none.
RECURSIVE SplitPop(_)
SplitPop(path) ==
    IF \A i \in 1..Len(path) : path[i] # "."
    THEN path
    ELSE SplitPop(Tail(path))

\* toLowerCase of one character (the capitals of the model's alphabet).
LowerChar(c) ==
    CASE c = "M" -> "m"
      [] c = "D" -> "d"
      [] OTHER -> c

\* String.prototype.toLowerCase
ToLowerCase(str) == [i \in 1..Len(str) |-> LowerChar(str[i])]

\* Mutant of ExtensionRejects: the extension compared as it is written.
ExtensionRejectsCaseSensitive(includeExtensions, path) ==
    /\ Given(includeExtensions)
    /\ Len(Value(includeExtensions)) > 0
    /\ LET fileExtension == SplitPop(path)
       IN  \/ fileExtension = <<>>
           \/ \A i \in 1..Len(Value(includeExtensions)) :
                  Value(includeExtensions)[i] # fileExtension

\* The extension check: TRUE when the entry is skipped.
ExtensionRejects(includeExtensions, path) ==
    /\ Given(includeExtensions)
    /\ Len(Value(includeExtensions)) > 0
    /\ LET fileExtension == ToLowerCase(SplitPop(path))
       IN  \/ fileExtension = <<>>
           \/ \A i \in 1..Len(Value(includeExtensions)) :
                  Value(includeExtensions)[i] # fileExtension

\* pattern.replace(/\*/g, '.*').replace(/\?/g, '.') read as a regular
\* expression: '*' becomes "any run", '?' and '.' "any character", every
\* other character of the model's alphabet stands for itself.
GlobToRegex(pattern) ==
    [i \in 1..Len(pattern) |->
        CASE pattern[i] = "*" -> [kind |-> "run", ch |-> ""]
          [] pattern[i] \in {"?", "."} -> [kind |-> "any", ch |-> ""]
          [] OTHER -> [kind |-> "lit", ch |-> pattern[i]]]

\* The regular expression matches a prefix of str.
RECURSIVE MatchHere(_, _)
MatchHere(regex, str) ==
    IF regex = <<>> THEN TRUE
    ELSE IF regex[1].kind = "run"
         THEN \E k \in 0..Len(str) :
                  MatchHere(Tail(regex), SubSeq(str, k + 1, Len(str)))
    ELSE IF str = <<>> THEN FALSE
    ELSE IF regex[1].kind = "any" THEN MatchHere(Tail(regex), Tail(str))
    ELSE regex[1].ch = str[1] /\ MatchHere(Tail(regex), Tail(str))

\* regex.test(str): the expression matches somewhere in str.
RegexTest(regex, str) ==
    \E k \in 0..Len(str) : MatchHere(regex, SubSeq(str, k + 1, Len(str)))

\* The exclude check: TRUE when the entry is skipped.
ExcludeRejects(excludePatterns, path) ==
    /\ Given(excludePatterns)
    /\ \E i \in 1..Len(Value(excludePatterns)) :
           RegexTest(GlobToRegex(Value(excludePatterns)[i]), path)

\* Mutant of TooLarge: a file of exactly maxFileSize is too large.
TooLargeFromLimit(size, maxFileSize) == size >= maxFileSize

\* contentRes.data.size > maxFileSize
TooLarge(size, maxFileSize) == size > maxFileSize

\* Buffer.from(data.content, 'base64').toString('utf-8'): it throws only
\* when the response has no content; bytes that are no UTF-8 decode to
\* replacement characters.
Decode(data) ==
    CASE data.payload = "text" -> [threw |-> FALSE, content |-> data.text]
      [] data.payload = "binary" -> [threw |-> FALSE, content |-> "U+FFFD"]
      [] OTHER -> [threw |-> TRUE, content |-> Undefined]

\* contentRes.data.content, kept when the decoding threw and includeBinary.
RawContent(data) ==
    IF data.payload = "missing" THEN Undefined ELSE data.raw

\* The custom filters of the model: what customFilter(path, content)
\* gives, "true", "false" or "throw".
CustomFilter(filter, path, content) ==
    CASE filter = "rejectMd" ->
             IF SplitPop(path) = <<"m", "d">> THEN "false" ELSE "true"
      [] filter = "throws" -> "throw"
      [] OTHER -> "true"

\* Mutant of AfterContent: the custom filter applied before the size and
\* the decoding.
AfterContentFilterFirst(cfg, item, data) ==
    LET dec == Decode(data)
        content == IF dec.threw THEN RawContent(data) ELSE dec.content
        verdict == IF cfg.customFilter = Undefined THEN "true"
                   ELSE CustomFilter(cfg.customFilter, item.path, content)
    IN  IF verdict # "true"
        THEN [outcome |-> IF verdict = "false" THEN "filtered" ELSE "error",
              content |-> content, filtered |-> TRUE]
        ELSE IF TooLarge(data.size, cfg.maxFileSize)
        THEN [outcome |-> "large", content |-> Undefined,
              filtered |-> cfg.customFilter # Undefined]
        ELSE IF dec.threw /\ ~cfg.includeBinary
        THEN [outcome |-> "binary", content |-> Undefined,
              filtered |-> cfg.customFilter # Undefined]
        ELSE [outcome |-> "returned", content |-> content,
              filtered |-> cfg.customFilter # Undefined]

\* What happens to a file entry once its content request was answered with
\* data: the outcome, and the content when it is returned.
AfterContent(cfg, item, data) ==
    IF TooLarge(data.size, cfg.maxFileSize)
    THEN [outcome |-> "large", content |-> Undefined, filtered |-> FALSE]
    ELSE LET dec == Decode(data)
             content == IF dec.threw THEN RawContent(data) ELSE dec.content
         IN  IF dec.threw /\ ~cfg.includeBinary
             THEN [outcome |-> "binary", content |-> Undefined,
                   filtered |-> FALSE]
             ELSE IF cfg.customFilter = Undefined
             THEN [outcome |-> "returned", content |-> content,
                   filtered |-> FALSE]
             ELSE LET verdict == CustomFilter(cfg.customFilter, item.path,
                                              content)
                  IN  [outcome |-> CASE verdict = "true" -> "returned"
                                     [] verdict = "false" -> "filtered"
                                     [] OTHER -> "error",
                       content |-> content, filtered |-> TRUE]

\* Mutant of SkipOutcomes: an entry that ended in an error is not counted.
SkipOutcomesButErrors ==
    {"excluded", "extension", "large", "binary", "filtered"}

\* The outcomes that count as a skip.
SkipOutcomes == {"excluded", "extension", "large", "binary", "filtered",
                 "error"}

\* One entry of the walk's history: what became of item i.
Processed(i, item, outcome, fetched, filtered) ==
    [i |-> i, path |-> item.path, outcome |-> outcome, fetched |-> fetched,
     filtered |-> filtered]

\* Mutant of ListingError: every failure of the listing rethrown as it is.
ListingErrorAsIs(status) == AxiosError(status)

\* The outer catch of fetchAllRepositoryFiles: what the walk throws when
\* the listing request failed with status.
ListingError(status) ==
    IF status = 404
    THEN PlainError(<<"Repository ", RepoName, " or branch ", DefaultBranch,
                      " not found">>)
    ELSE IF status = 409
    THEN PlainError(<<"Repository ", RepoName, " is empty">>)
    ELSE AxiosError(status)

\* GET /repos/{owner}/{repo}/git/trees/{branch}?recursive=1
RemoteGetTree(remote) ==
    IF remote.state = "absent" THEN 404
    ELSE IF remote.state = "empty" THEN 409
    ELSE 200

WalkUnchanged == UNCHANGED <<wcfg, wremote>>

PublishUnchanged ==
    UNCHANGED <<repos, refs, commits, trees, blobs, pc, args, loc, out,
                calls, refLog, tokenScopes, validationBody, taskVars>>

\* The listing request and the start of the loop.
ListTree ==
    /\ wpc = "Listing"
    /\ \E answer \in Answers("getTree") :
         LET status == IF answer = 200 THEN RemoteGetTree(wremote)
                       ELSE answer
         IN  /\ faultBudget' = Spend(answer)
             /\ IF status = 200
                THEN /\ wpc' = "Scanning"
                     /\ wloc' = [tree |-> wremote.tree, index |-> 1,
                                 files |-> <<>>, skippedCount |-> 0]
                     /\ wout' = wout
                ELSE /\ wpc' = "Failed"
                     /\ wloc' = wloc
                     /\ wout' = [state |-> "threw",
                                 error |-> ListingError(status),
                                 files |-> <<>>]
    /\ wlog' = wlog
    /\ WalkUnchanged
    /\ PublishUnchanged

\* One turn of the loop up to the content request: the type, the exclude
\* patterns and the extension.
ScanItem ==
    /\ wpc = "Scanning"
    /\ wloc.index <= Len(wloc.tree)
    /\ LET i == wloc.index
           item == wloc.tree[i]
       IN  IF item.type # "blob"
           THEN /\ wloc' = [wloc EXCEPT !.index = i + 1]
                /\ wlog' = Append(wlog, Processed(i, item, "not a file",
                                                  FALSE, FALSE))
                /\ wpc' = wpc
           ELSE IF ExcludeRejects(wcfg.excludePatterns, item.path)
           THEN /\ wloc' = [wloc EXCEPT !.index = i + 1,
                                        !.skippedCount = @ + 1]
                /\ wlog' = Append(wlog, Processed(i, item, "excluded",
                                                  FALSE, FALSE))
                /\ wpc' = wpc
           ELSE IF ExtensionRejects(wcfg.includeExtensions, item.path)
           THEN /\ wloc' = [wloc EXCEPT !.index = i + 1,
                                        !.skippedCount = @ + 1]
                /\ wlog' = Append(wlog, Processed(i, item, "extension",
                                                  FALSE, FALSE))
                /\ wpc' = wpc
           ELSE /\ wpc' = "Fetching"
                /\ wloc' = wloc
                /\ wlog' = wlog
    /\ UNCHANGED <<wout, faultBudget>>
    /\ WalkUnchanged
    /\ PublishUnchanged

\* Mutant of AfterEntry: an error of one entry ends the walk.
AfterEntryAborting(outcome) ==
    IF outcome = "error" THEN "Failed" ELSE "Scanning"

\* The position after the turn of an entry: the inner catch counts an
\* error and the loop goes on.
AfterEntry(outcome) == "Scanning"

\* The content request of the entry and the rest of its turn: the size,
\* the decoding, the custom filter, the push; an error is caught and counted.
FetchContent ==
    /\ wpc = "Fetching"
    /\ \E answer \in Answers("getBlob") :
         LET i == wloc.index
             item == wloc.tree[i]
             res == IF answer = 200 THEN AfterContent(wcfg, item, item.data)
                    ELSE [outcome |-> "error", content |-> Undefined,
                          filtered |-> FALSE]
         IN  /\ faultBudget' = Spend(answer)
             /\ wloc' = [wloc EXCEPT
                            !.index = i + 1,
                            !.files = IF res.outcome = "returned"
                                      THEN Append(@, [path |-> item.path,
                                                      content |-> res.content])
                                      ELSE @,
                            !.skippedCount = IF res.outcome \in SkipOutcomes
                                             THEN @ + 1 ELSE @]
             /\ wlog' = Append(wlog, Processed(i, item, res.outcome, TRUE,
                                               res.filtered))
             /\ wpc' = AfterEntry(res.outcome)
    /\ wout' = wout
    /\ WalkUnchanged
    /\ PublishUnchanged

\* return files
ReturnFiles ==
    /\ wpc = "Scanning"
    /\ wloc.index > Len(wloc.tree)
    /\ wpc' = "Returned"
    /\ wout' = [state |-> "returned", error |-> NoError,
                files |-> wloc.files]
    /\ UNCHANGED <<wloc, wlog, faultBudget>>
    /\ WalkUnchanged
    /\ PublishUnchanged

---------------------------------------------------------------------------
(* Inputs and initial states. *)

\* Sequences over S of length at most n.
SeqsUpTo(S, n) == UNION {[1..k -> S] : k \in 0..n}

\* The entries of the model's tree listings: a path, a type, and for a
\* file what its content request returns (size, payload).
FileData(size, payload) ==
    [size |-> size, payload |-> payload, raw |-> "base64", text |-> "text"]

TreeItem(path, type, data) == [path |-> path, type |-> type, data |-> data]

WalkItems ==
    {TreeItem(<<"a", ".", "t", "s">>, "blob", FileData(100, "text")),
     TreeItem(<<"b", ".", "p", "y">>, "blob",
              FileData(DefaultMaxFileSize + 1, "text")),
     TreeItem(<<"c", ".", "m", "d">>, "blob",
              FileData(DefaultMaxFileSize, "text")),
     TreeItem(<<"t", "s">>, "blob", FileData(100, "text")),
     TreeItem(<<"e", ".", "M", "D">>, "blob", FileData(500, "binary")),
     TreeItem(<<"f">>, "blob", FileData(100, "missing")),
     TreeItem(<<"s", "r", "c">>, "tree", FileData(0, "missing")),
     TreeItem(<<"l", "i", "b">>, "commit", FileData(0, "missing"))}

\* A tree listing: at most MaxTreeLen entries, no path twice.
TreeListings ==
    {t \in SeqsUpTo(WalkItems, MaxTreeLen) :
        \A i, j \in 1..Len(t) : i # j => t[i].path # t[j].path}

\* The destructuring of config: maxFileSize has its default when left out,
\* includeBinary is false when left out.
WalkConfig(includeExtensions, excludePatterns, maxFileSize, includeBinary, customFilter) ==
    [includeExtensions |-> includeExtensions,
     excludePatterns |-> excludePatterns,
     maxFileSize |-> IF Given(maxFileSize) THEN Value(maxFileSize)
                     ELSE DefaultMaxFileSize,
     includeBinary |-> IF Given(includeBinary) THEN Value(includeBinary)
                       ELSE FALSE,
     customFilter |-> customFilter]

WalkConfigs ==
    {WalkConfig(ie, ep, mfs, ib, cf) :
        ie \in {None, Some(<<>>), Some(<<<<"t", "s">>, <<"m", "d">>>>)},
        ep \in {None, Some(<<<<"t", "*">>, <<"?", ".", "m", "d">>>>)},
        mfs \in {None, Some(100)},
        ib \in {None, Some(TRUE)},
        cf \in {Undefined, "rejectMd", "throws"}}

---------------------------------------------------------------------------
(* src/src/lib/tasks.ts: updateSubtaskCompleted and the tasks file. *)

\* const DEFAULT_TASKS_PATH = './tasks.json'
DEFAULT_TASKS_PATH == "./tasks.json"

\* new Date().toISOString() at the time of the call.
Now == "now"

\* An id that is a JSON string, and one that is a JSON number.
StringId(text) == [type |-> "string", text |-> text]

NumberId(text) == [type |-> "number", text |-> text]

\* id.toString()
IdString(id) == id.text

\* A notes string is a sequence of pieces; the empty sequence is falsy, as
\* are undefined and "".
NoNotes == <<>>

Truthy(notes) == notes # NoNotes

Subtask(id, status) ==
    [id |-> id, status |-> status, completedAt |-> Undefined,
     notes |-> NoNotes]

Task(id, status, subtasks, notes) ==
    [id |-> id, status |-> status, subtasks |-> subtasks, notes |-> notes,
     updatedAt |-> Undefined]

\* What JSON.parse gives for the text of the file: null, or an object whose
\* tasks property is missing, a string or an array.
NoDoc ==
    [kind |-> "none", tasksField |-> "missing", tasks |-> <<>>,
     lastUpdated |-> Undefined]

NullDoc == [NoDoc EXCEPT !.kind = "null"]

TasksDoc(tasksField, tasks, lastUpdated) ==
    [kind |-> "object", tasksField |-> tasksField, tasks |-> tasks,
     lastUpdated |-> lastUpdated]

\* The tasks file: absent, or with a text that is JSON for doc or is not
\* JSON at all.
AbsentFile == [exists |-> FALSE, text |-> "", doc |-> NoDoc]

MalformedFile == [exists |-> TRUE, text |-> "malformed", doc |-> NoDoc]

\* JSON.stringify(data, null, 2) written to the file.
JsonStringify(doc) == [exists |-> TRUE, text |-> "json", doc |-> doc]

\* JSON.parse(fileContent): it throws a SyntaxError for a text that is no
\* JSON.
JsonParse(file) ==
    IF file.text = "json"
    THEN [threw |-> FALSE, value |-> file.doc]
    ELSE [threw |-> TRUE, value |-> NoDoc]

\* completionTime = new Date().toISOString() by default
CompletionTime(options) ==
    IF options.completionTime = Undefined THEN Now
    ELSE options.completionTime

\* The callback of task.subtasks.map
UpdateSubtask(subtask, options) ==
    IF subtask.id = options.subtaskId
    THEN [subtask EXCEPT !.status = "completed",
                         !.completedAt = CompletionTime(options),
                         !.notes = IF Truthy(options.notes)
                                   THEN options.notes ELSE @]
    ELSE subtask

\* task.subtasks && task.subtasks.length > 0
HasSubtasks(task) ==
    Given(task.subtasks) /\ Len(Value(task.subtasks)) > 0

\* The status of a task after its subtasks were mapped.
NewTaskStatus(task, updatedSubtasks) ==
    LET allSubtasksCompleted ==
            \A i \in 1..Len(updatedSubtasks) :
                updatedSubtasks[i].status = "completed"
        anySubtaskInProgress ==
            \E i \in 1..Len(updatedSubtasks) :
                updatedSubtasks[i].status = "in-progress"
    IN  IF allSubtasksCompleted /\ task.status # "completed"
        THEN "completed"
        ELSE IF anySubtaskInProgress /\ task.status = "pending"
        THEN "in-progress"
        ELSE task.status

\* The callback of tasksData.tasks.map
UpdateTask(task, options) ==
    IF HasSubtasks(task)
    THEN LET updatedSubtasks ==
                 [i \in 1..Len(Value(task.subtasks)) |->
                     UpdateSubtask(Value(task.subtasks)[i], options)]
         IN  [task EXCEPT !.subtasks = Some(updatedSubtasks),
                          !.status = NewTaskStatus(task, updatedSubtasks),
                          !.updatedAt = Now]
    ELSE IF IdString(task.id) = IdString(options.subtaskId)
    THEN [task EXCEPT !.status = "completed",
                      !.updatedAt = Now,
                      !.notes = IF ~Truthy(options.notes) THEN @
                                ELSE IF Truthy(@)
                                THEN @ \o <<"\n">> \o options.notes
                                ELSE options.notes]
    ELSE task

\* Mutant of SubtaskFound: the update goes on whether or not an id matched.
SubtaskFoundAlways(tasks, options) == TRUE

\* subtaskFound after the map: a subtask of a task with subtasks has the
\* id, or a task without subtasks has it.
SubtaskFound(tasks, options) ==
    \E i \in 1..Len(tasks) :
        IF HasSubtasks(tasks[i])
        THEN \E j \in 1..Len(Value(tasks[i].subtasks)) :
                 Value(tasks[i].subtasks)[j].id = options.subtaskId
        ELSE IdString(tasks[i].id) = IdString(options.subtaskId)

\* A TypeError raised by the runtime.
TypeError(message) == [PlainError(message) EXCEPT !.type = "TypeError"]

TaskPending == [state |-> "pending", error |-> NoError, value |-> NoDoc]

TaskLocals ==
    [tasksData |-> NoDoc, updatedTasks |-> <<>>, subtaskFound |-> FALSE]

\* The call throws e.
TaskThrow(e) ==
    /\ tpc' = "Failed"
    /\ tout' = [state |-> "threw", error |-> e, value |-> NoDoc]
    /\ tloc' = tloc

TasksOnly ==
    UNCHANGED <<repos, refs, commits, trees, blobs, pc, args, loc, out,
                calls, refLog, faultBudget, tokenScopes, validationBody,
                walkVars, topt, tfile0>>

\* if (!existsSync(tasksPath)) throw ...
TaskExists ==
    /\ tpc = "CheckingFile"
    /\ IF ~tfile.exists
       THEN TaskThrow(PlainError(<<"Tasks file not found at path: ",
                                   topt.tasksPath>>))
       ELSE /\ tpc' = "Reading"
            /\ UNCHANGED <<tloc, tout>>
    /\ UNCHANGED <<tfile, twrites>>
    /\ TasksOnly

\* readFileSync and JSON.parse, in the first try block
TaskRead ==
    /\ tpc = "Reading"
    /\ LET parsed == JsonParse(tfile)
       IN  IF parsed.threw
           THEN TaskThrow(PlainError(<<"Failed to parse tasks.json file: ",
                                       "Unexpected token">>))
           ELSE /\ tpc' = "ValidatingStructure"
                /\ tloc' = [tloc EXCEPT !.tasksData = parsed.value]
                /\ tout' = tout
    /\ UNCHANGED <<tfile, twrites>>
    /\ TasksOnly

\* if (!tasksData.tasks || !Array.isArray(tasksData.tasks)) throw ...;
\* reading a property of null is a TypeError.
TaskValidate ==
    /\ tpc = "ValidatingStructure"
    /\ IF tloc.tasksData.kind = "null"
       THEN TaskThrow(TypeError(<<"Cannot read properties of null">>))
       ELSE IF tloc.tasksData.tasksField # "array"
       THEN TaskThrow(PlainError(<<"Invalid tasks.json structure: ",
                                   "missing or invalid tasks array">>))
       ELSE /\ tpc' = "Mapping"
            /\ UNCHANGED <<tloc, tout>>
    /\ UNCHANGED <<tfile, twrites>>
    /\ TasksOnly

\* The map over the tasks and the subtaskFound check after it.
TaskMap ==
    /\ tpc = "Mapping"
    /\ LET tasks == tloc.tasksData.tasks
           updatedTasks == [i \in 1..Len(tasks) |-> UpdateTask(tasks[i], topt)]
       IN  IF ~SubtaskFound(tasks, topt)
           THEN TaskThrow(PlainError(<<"Task or subtask with ID \"",
                                       IdString(topt.subtaskId),
                                       "\" not found">>))
           ELSE /\ tpc' = "Writing"
                /\ tloc' = [tloc EXCEPT !.updatedTasks = updatedTasks,
                                        !.subtaskFound = TRUE]
                /\ tout' = tout
    /\ UNCHANGED <<tfile, twrites>>
    /\ TasksOnly

\* updatedTasksData, writeFileSync in the second try block, and the return;
\* a write that fails leaves the file as it was or cut short.
TaskWrite ==
    /\ tpc = "Writing"
    /\ twrites' = twrites + 1
    /\ LET updatedTasksData ==
               [tloc.tasksData EXCEPT !.tasks = tloc.updatedTasks,
                                      !.lastUpdated = Now]
       IN  \E written \in BOOLEAN :
             IF written
             THEN /\ tfile' = JsonStringify(updatedTasksData)
                  /\ tpc' = "Returned"
                  /\ tout' = [state |-> "returned", error |-> NoError,
                              value |-> updatedTasksData]
                  /\ tloc' = tloc
             ELSE /\ tfile' \in {tfile, MalformedFile}
                  /\ TaskThrow(PlainError(
                         <<"Failed to write updated tasks.json file: ",
                           "EIO">>))
    /\ TasksOnly

\* The most tasks in a tasks file.
MaxTasks == 2

\* A task without subtasks whose id is a number, a task with no subtask left
\* to do but one, a task with a subtask in progress.
SampleTasks ==
    {Task(NumberId("1"), "pending", None, <<"old">>),
     Task(StringId("2"), "pending",
          Some(<<Subtask(StringId("2.1"), "pending"),
                 Subtask(StringId("2.2"), "completed")>>), NoNotes),
     Task(StringId("3"), "pending",
          Some(<<Subtask(StringId("3.1"), "pending"),
                 Subtask(StringId("3.2"), "in-progress")>>), NoNotes),
     Task(StringId("5"), "in-progress", Some(<<>>), NoNotes)}

TaskFiles ==
    {AbsentFile, MalformedFile, JsonStringify(NullDoc),
     JsonStringify(TasksDoc("missing", <<>>, Undefined)),
     JsonStringify(TasksDoc("string", <<>>, "before"))}
    \cup {JsonStringify(TasksDoc("array", tasks, "before")) :
             tasks \in SeqsUpTo(SampleTasks, MaxTasks)}

TaskOptions ==
    {[tasksPath |-> DEFAULT_TASKS_PATH, subtaskId |-> StringId(id),
      completionTime |-> time, notes |-> notes] :
        id \in {"1", "2", "2.1", "3.1", "5", "9"},
        time \in {Undefined, "t1"},
        notes \in {NoNotes, <<"n">>}}

\* No call of updateSubtaskCompleted.
TasksOff ==
    /\ tpc = "Off"
    /\ topt = [tasksPath |-> DEFAULT_TASKS_PATH, subtaskId |-> StringId(""),
               completionTime |-> Undefined, notes |-> NoNotes]
    /\ tfile = AbsentFile
    /\ tloc = TaskLocals
    /\ tout = TaskPending
    /\ tfile0 = AbsentFile
    /\ twrites = 0

WalkPending == [state |-> "pending", error |-> NoError, files |-> <<>>]

WalkLocals == [tree |-> <<>>, index |-> 1, files |-> <<>>, skippedCount |-> 0]

\* No walk.
WalkOff ==
    /\ wpc = "Off"
    /\ wcfg = WalkConfig(None, None, None, None, Undefined)
    /\ wremote = [state |-> "absent", tree |-> <<>>]
    /\ wloc = WalkLocals
    /\ wlog = <<>>
    /\ wout = WalkPending

\* Two files that pass validation, with the same content, and one that does
\* not (whitespace-only content).
FileA == [path |-> <<"a">>, content |-> <<"x">>]

FileB == [path |-> <<"a", "\\", "a">>, content |-> <<"x">>]

FileBlank == [path |-> <<"a">>, content |-> <<" ">>]

SampleFiles == {FileA, FileB, FileBlank}

SampleLists == SeqsUpTo(SampleFiles, MaxFiles)

\* Every file with a path of at most MaxPathLen characters.
Contents == {<<>>, <<" ">>, <<"x">>, <<" ", "x">>}

AllFiles ==
    {[path |-> pa, content |-> co] :
        pa \in SeqsUpTo(PathAlphabet, MaxPathLen), co \in Contents}

\* Any file alone, or before or after a sample file.
RichLists ==
    {<<f>> : f \in AllFiles}
    \cup {<<f, g>> : f \in AllFiles, g \in {FileA, FileBlank}}
    \cup {<<g, f>> : f \in AllFiles, g \in {FileA, FileBlank}}

NewBranchChoices == {"", "feature", "main", BadRefName}

Arguments(owner, newBranch, files, message) ==
    [owner |-> owner, baseBranch |-> DefaultBranch, newBranch |-> newBranch,
     files |-> files, commitMessage |-> message]

InitialLocals(a) ==
    [tokenInfo |-> [login |-> "", scopes |-> {}],
     exists |-> FALSE,
     baseBranch |-> a.baseBranch,
     baseSHA |-> NoSha,
     baseTreeSHA |-> NoSha,
     validatedFiles |-> <<>>,
     tree |-> <<>>,
     newTreeSHA |-> NoSha,
     commitSHA |-> NoSha]

\* The remote before any publish: each repository absent, empty or ready; a
\* ready one has main at commit 1 and, with featureExists, feature at
\* commit 2, a child of commit 1.
InitRemote(repoStates, featureExists) ==
    /\ repos = repoStates
    /\ refs = [o \in Owners |->
                 [b \in RefNames |->
                     IF repoStates[o] # "ready" THEN NoSha
                     ELSE IF b = DefaultBranch THEN 1
                     ELSE IF featureExists THEN 2
                     ELSE NoSha]]
    /\ trees = <<[base |-> NoSha, entries |-> <<>>]>>
    /\ commits = <<[parent |-> NoSha, tree |-> 1, message |-> "Initial commit"],
                   [parent |-> 1, tree |-> 1, message |-> "Feature work"]>>
    /\ blobs = {}
    /\ refLog = <<>>

\* Publishes started with arguments a[p] for p in active.
InitPublishes(active, a) ==
    /\ args = a
    /\ pc = [p \in Procs |-> IF p \in active THEN "VerifyingCredential"
                             ELSE "Off"]
    /\ loc = [p \in Procs |-> InitialLocals(a[p])]
    /\ out = [p \in Procs |-> Pending]
    /\ calls = [p \in Procs |-> <<>>]

Idle == Arguments(TokenLogin, "", <<>>, "none")

\* One publish, any arguments, any remote, the environment free to fail
\* MaxFaults calls.
Init ==
    /\ \E rs \in [Owners -> {"absent", "empty", "ready"}], fe \in BOOLEAN :
         InitRemote(rs, fe)
    /\ \E o \in Owners, nb \in NewBranchChoices, fs \in SampleLists :
         InitPublishes({1}, [p \in Procs |->
             IF p = 1 THEN Arguments(o, nb, fs, "publish 1") ELSE Idle])
    /\ faultBudget = MaxFaults
    /\ tokenScopes \in {{"repo"}, {"gist"}}
    /\ validationBody \in ValidationBodies
    /\ WalkOff
    /\ TasksOff

\* One publish of an arbitrary file list into an existing repository.
InitRich ==
    /\ \E fe \in BOOLEAN :
         InitRemote([o \in Owners |-> "ready"], fe)
    /\ \E nb \in {"", "feature"}, fs \in RichLists :
         InitPublishes({1}, [p \in Procs |->
             IF p = 1 THEN Arguments(TokenLogin, nb, fs, "publish 1")
             ELSE Idle])
    /\ faultBudget = 0
    /\ tokenScopes = {"repo"}
    /\ validationBody = NoData
    /\ WalkOff
    /\ TasksOff

\* Two concurrent publishes into the same repository.
InitConcurrent ==
    /\ \E st \in {"absent", "ready"}, fe \in BOOLEAN :
         InitRemote([o \in Owners |-> IF o = TokenLogin THEN st ELSE "absent"],
                    fe)
    /\ \E nb1, nb2 \in {"", "feature"}, fs1, fs2 \in {<<FileA>>, <<FileB, FileA>>} :
         InitPublishes({1, 2}, [p \in Procs |->
             IF p = 1 THEN Arguments(TokenLogin, nb1, fs1, "publish 1")
             ELSE Arguments(TokenLogin, nb2, fs2, "publish 2")])
    /\ faultBudget = 0
    /\ tokenScopes = {"repo"}
    /\ validationBody = NoData
    /\ WalkOff
    /\ TasksOff

\* One walk of any listing with any config, no publish.
InitWalk ==
    /\ wpc = "Listing"
    /\ wcfg \in WalkConfigs
    /\ wremote \in {[state |-> "ready", tree |-> t] : t \in TreeListings}
                   \cup {[state |-> st, tree |-> <<>>] :
                            st \in {"absent", "empty"}}
    /\ wloc = WalkLocals
    /\ wlog = <<>>
    /\ wout = WalkPending
    /\ InitRemote([o \in Owners |-> "absent"], FALSE)
    /\ InitPublishes({}, [p \in Procs |-> Idle])
    /\ faultBudget = MaxFaults
    /\ tokenScopes = {"repo"}
    /\ validationBody = NoData
    /\ TasksOff

\* One publish by the owner of the credential or to an organization, the
\* repository absent or ready, the environment free to fail MaxFaults calls.
InitOnePublish ==
    /\ \E st \in {"absent", "ready"}, fe \in BOOLEAN :
         InitRemote([o \in Owners |-> st], fe)
    /\ \E o \in Owners, nb \in {"", "feature"},
          fs \in {<<FileA>>, <<FileB, FileA>>, <<FileBlank>>} :
         InitPublishes({1}, [p \in Procs |->
             IF p = 1 THEN Arguments(o, nb, fs, "publish 1") ELSE Idle])
    /\ faultBudget = MaxFaults
    /\ tokenScopes = {"repo"}
    /\ validationBody = NoData
    /\ WalkOff
    /\ TasksOff

\* One walk of any listing, with or without an extension list and a custom
\* filter that throws, the environment free to fail MaxFaults calls.
InitOneWalk ==
    /\ wpc = "Listing"
    /\ wcfg \in {WalkConfig(ie, None, None, None, cf) :
                    ie \in {None, Some(<<<<"t", "s">>, <<"m", "d">>>>)},
                    cf \in {Undefined, "throws"}}
    /\ wremote \in {[state |-> "ready", tree |-> t] : t \in TreeListings}
                   \cup {[state |-> st, tree |-> <<>>] :
                            st \in {"absent", "empty"}}
    /\ wloc = WalkLocals
    /\ wlog = <<>>
    /\ wout = WalkPending
    /\ InitRemote([o \in Owners |-> "absent"], FALSE)
    /\ InitPublishes({}, [p \in Procs |-> Idle])
    /\ faultBudget = MaxFaults
    /\ tokenScopes = {"repo"}
    /\ validationBody = NoData
    /\ TasksOff

\* One call of updateSubtaskCompleted on any tasks file, no publish, no walk.
InitTasks ==
    /\ tpc = "CheckingFile"
    /\ topt \in TaskOptions
    /\ tfile \in TaskFiles
    /\ tloc = TaskLocals
    /\ tout = TaskPending
    /\ tfile0 = tfile
    /\ twrites = 0
    /\ InitRemote([o \in Owners |-> "absent"], FALSE)
    /\ InitPublishes({}, [p \in Procs |-> Idle])
    /\ faultBudget = 0
    /\ tokenScopes = {"repo"}
    /\ validationBody = NoData
    /\ WalkOff

\* One call of commitFilesToBranch on the default branch, any file list, any
\* remote, the environment free to fail MaxFaults calls.
InitCommitFiles ==
    /\ \E rs \in [Owners -> {"absent", "empty", "ready"}], fe \in BOOLEAN :
         InitRemote(rs, fe)
    /\ \E o \in Owners, fs \in SampleLists :
         /\ args = [p \in Procs |->
                       IF p = 1 THEN Arguments(o, "", fs, "commit 1") ELSE Idle]
         /\ pc = [p \in Procs |-> IF p = 1 THEN "CommitReadingTip" ELSE "Off"]
         /\ loc = [p \in Procs |-> InitialLocals(args[p])]
         /\ out = [p \in Procs |-> Pending]
         /\ calls = [p \in Procs |-> <<>>]
    /\ faultBudget = MaxFaults
    /\ tokenScopes = {"repo"}
    /\ validationBody = NoData
    /\ WalkOff
    /\ TasksOff

---------------------------------------------------------------------------
(* Specifications. *)

NextCommitFiles ==
    \E p \in Procs :
        \/ CommitGetTip(p)
        \/ CommitGetTree(p)
        \/ CommitCreateBlob(p)
        \/ CommitCreateTree(p)
        \/ CommitCreateCommit(p)
        \/ CommitUpdateRef(p)

\* One call of commitFilesToBranch.
SpecCommitFiles == InitCommitFiles /\ [][NextCommitFiles]_vars

NextTasks == TaskExists \/ TaskRead \/ TaskValidate \/ TaskMap \/ TaskWrite

\* One call of updateSubtaskCompleted.
SpecTasks == InitTasks /\ [][NextTasks]_vars

\* One call of updateSubtaskCompleted, which is synchronous and runs to its
\* return or throw.
SpecTasksFair == SpecTasks /\ WF_vars(NextTasks)

NextWalk == ListTree \/ ScanItem \/ FetchContent \/ ReturnFiles

\* One walk.
SpecWalk == InitWalk /\ [][NextWalk]_vars

Next ==
    \E p \in Procs :
        \/ VerifyToken(p)
        \/ CheckRepository(p)
        \/ CreateRepository(p)
        \/ Wait(p)
        \/ GetBranchSHA(p)
        \/ CreateBranch(p)
        \/ GetCommitTree(p)
        \/ Validate(p)
        \/ CreateBlob(p)
        \/ CreateTree(p)
        \/ CreateCommit(p)
        \/ UpdateBranch(p)

\* One publish.
Spec == Init /\ [][Next]_vars

\* One publish, the file lists enumerated exhaustively.
SpecFiles == (Init \/ InitRich) /\ [][Next]_vars

\* Two concurrent publishes.
SpecConcurrent == (InitConcurrent \/ Init) /\ [][Next]_vars

\* One publish or one walk, every remote call returning: the step that
\* follows an await is taken.
SpecTerminating ==
    /\ InitOnePublish \/ InitOneWalk
    /\ [][Next \/ NextWalk]_vars
    /\ WF_vars(Next \/ NextWalk)

---------------------------------------------------------------------------
(* Reading the histories. *)

Active == {p \in Procs : pc[p] # "Off"}

\* The positions of the calls of op in the history of p.
CallsOf(p, op) == {i \in 1..Len(calls[p]) : calls[p][i].op = op}

\* The branch publish p is to update.
Target(p) == TargetBranch(args[p].baseBranch, args[p].newBranch)

\* A distinct, non-empty newBranch was requested.
DistinctNewBranch(p) ==
    args[p].newBranch # "" /\ args[p].newBranch # args[p].baseBranch

\* The step a call carried out completed successfully: the remote did what
\* was asked, the existence check found the repository missing, or the
\* branch to create existed already.
Succeeded(c) ==
    \/ c.status \in {200, 201}
    \/ c.op = "repositoryExists" /\ c.status = 404
    \/ c.op = "createBranch" /\ c.arg.alreadyExists

\* The calls of the steps of section 4.4, each with the calls that may
\* follow it.
Follows(op, next) ==
    CASE op = "verifyToken" -> next = "repositoryExists"
      [] op = "repositoryExists" -> next \in {"createRepository", "getBranchSHA"}
      [] op = "createRepository" -> next = "wait"
      [] op = "wait" -> next = "getBranchSHA"
      [] op = "getBranchSHA" -> next \in {"createBranch", "getCommit"}
      [] op = "createBranch" -> next = "getCommit"
      [] op = "getCommit" -> next = "createBlob"
      [] op = "createBlob" -> next \in {"createBlob", "createTree"}
      [] op = "createTree" -> next = "createCommit"
      [] op = "createCommit" -> next = "updateBranch"
      [] OTHER -> FALSE

---------------------------------------------------------------------------
(* C1 *)

\* C1: in every run of pushFilesAsCommit the steps occur in the order of
\* section 4.4: the first call is the credential check, each call is
\* followed only by the call of the next step, no step starts before the
\* step before it completed successfully, the validation lies between the
\* base tree read and the first blob, and Done is reached only after the
\* ref update succeeded.
C1_StepOrder ==
    \A p \in Procs :
        LET h == calls[p]
        IN  /\ Len(h) > 0 => h[1].op = "verifyToken"
            /\ \A i \in 1..(Len(h) - 1) :
                  /\ Follows(h[i].op, h[i + 1].op)
                  /\ Succeeded(h[i])
            /\ pc[p] \notin {"Failed", "Off"} =>
                  \A i \in 1..Len(h) : Succeeded(h[i])
            /\ CallsOf(p, "createBlob") # {} => loc[p].validatedFiles # <<>>
            /\ pc[p] = "Done" =>
                  /\ Len(h) > 0
                  /\ h[Len(h)].op = "updateBranch"
                  /\ h[Len(h)].status = 200

---------------------------------------------------------------------------
(* C2 *)

\* The commit of publish p holds the tree built from all its validated
\* files, anchored at the tree of the base head.
BuiltFromAllValidated(p) ==
    LET vf == loc[p].validatedFiles
        sha == loc[p].commitSHA
    IN  /\ sha \in 1..Len(commits)
        /\ commits[sha].message = args[p].commitMessage
        /\ vf # <<>>
        /\ trees[commits[sha].tree].entries =
               [i \in 1..Len(vf) |->
                   [path |-> vf[i].path, mode |-> "100644", type |-> "blob",
                    sha |-> vf[i].content]]
        /\ \A f \in {args[p].files[i] : i \in 1..Len(args[p].files)} :
               (f.content # <<>> /\ \E i \in 1..Len(f.content) :
                                        f.content[i] \notin WhiteSpace)
               /\ (\E i \in 1..Len(f.path) : f.path[i] \notin WhiteSpace)
               /\ (\A i \in 1..Len(f.path) :
                       f.path[i] \notin InvalidPunct \cup C0Control)
               => \E i \in 1..Len(vf) : vf[i].content = f.content

\* A step that changes an existing ref is the UpdatingRef step of a publish
\* to that branch, and writes that publish's commit.
RefWrittenOnlyByUpdate ==
    \A o \in Owners, b \in RefNames :
        (refs[o][b] # NoSha /\ refs'[o][b] # refs[o][b]) =>
            \E p \in Procs :
                /\ pc[p] = "UpdatingRef"
                /\ pc'[p] = "Done"
                /\ o = args[p].owner
                /\ b = Target(p)
                /\ refs'[o][b] = loc[p].commitSHA
                /\ BuiltFromAllValidated(p)

\* No ref points at a commit of a publish that is not Done.
UnfinishedUnreferenced ==
    \A p \in Procs : \A o \in Owners, b \in RefNames :
        (pc[p] # "Done" /\ refs[o][b] # NoSha) =>
            commits[refs[o][b]].message # args[p].commitMessage

\* C2: a publish is atomic with respect to an existing target ref: the ref
\* keeps its value until the UpdatingRef step writes the new commit, whose
\* tree was built from all validated files; a publish that failed before
\* leaves only unreferenced objects behind.
C2_AtomicRef == [][RefWrittenOnlyByUpdate]_vars /\ []UnfinishedUnreferenced

\* The ref update of a publish to an existing branch failed after its
\* commit was created.
C2_Witness ==
    \E p \in Procs :
        /\ pc[p] = "Failed"
        /\ loc[p].commitSHA # NoSha
        /\ Target(p) \in RefNames
        /\ refs[args[p].owner][Target(p)] \notin {NoSha, loc[p].commitSHA}

---------------------------------------------------------------------------
(* C3 *)

\* What the claim says of one validated file, controls being the control
\* characters.
CleanFile(f, controls) ==
    /\ f.path # <<>>
    /\ f.content # <<>>
    /\ \E i \in 1..Len(f.content) : f.content[i] \notin WhiteSpace
    /\ \A i \in 1..Len(f.path) :
          f.path[i] \notin {"\\"} \cup controls \cup InvalidPunct
    /\ f.path[1] \notin WhiteSpace
    /\ f.path[Len(f.path)] \notin WhiteSpace

\* C3 as stated: the validated list holds no entry with an empty path, with
\* empty or whitespace-only content, with a backslash, a control character
\* or one of < > : " | ? * in its path, or with leading or trailing
\* whitespace in its path.
C3_Original ==
    \A p \in Procs : \A i \in 1..Len(loc[p].validatedFiles) :
        CleanFile(loc[p].validatedFiles[i], ControlChars)

\* C3 as amended: the same, the control characters excluded being those of
\* U+0000 .. U+001F only (U+007F, DEL, passes the validation).
C3_ValidatedClean ==
    \A p \in Procs : \A i \in 1..Len(loc[p].validatedFiles) :
        CleanFile(loc[p].validatedFiles[i], C0Control)

\* A publish validated two files, dropped one and normalized the path of
\* the other.
C3_Witness ==
    \E p \in Procs :
        /\ pc[p] = "CreatingBlobs"
        /\ Len(args[p].files) = 2
        /\ Len(loc[p].validatedFiles) = 1
        /\ \A i \in 1..2 : args[p].files[i].path # loc[p].validatedFiles[1].path

---------------------------------------------------------------------------
(* C4 *)

ObjectCalls == {"createBlob", "createTree", "createCommit", "updateBranch"}

\* C4: when the validation leaves no file the publish fails with the
\* no-valid-files error, and never issues a blob, tree, commit or ref
\* update call: its last call stays the read of the base commit.
C4_NoValidFiles ==
    \A p \in Procs :
        (\A i \in 1..Len(args[p].files) : ~FileFilter(args[p].files[i])) =>
            /\ pc[p] \notin {"CreatingBlobs", "CreatingTree", "CreatingCommit",
                             "UpdatingRef", "Done"}
            /\ \A i \in 1..Len(calls[p]) : calls[p][i].op \notin ObjectCalls
            /\ (/\ pc[p] = "Failed"
                /\ calls[p] # <<>>
                /\ calls[p][Len(calls[p])].op = "getCommit"
                /\ calls[p][Len(calls[p])].status = 200)
               => out[p] = Threw(PlainError(
                               <<"No valid files to commit after validation">>))

\* A publish whose files were all dropped failed in the validation.
C4_Witness ==
    \E p \in Procs :
        /\ pc[p] = "Failed"
        /\ args[p].files # <<>>
        /\ out[p].error.message =
               <<"No valid files to commit after validation">>
        /\ calls[p][Len(calls[p])].op = "getCommit"

---------------------------------------------------------------------------
(* C5 *)

\* Commit sha is commit tip or one of its ancestors.
RECURSIVE ReachableFrom(_, _)
ReachableFrom(sha, tip) ==
    IF tip \notin 1..Len(commits) THEN FALSE
    ELSE IF tip = sha THEN TRUE
    ELSE ReachableFrom(sha, commits[tip].parent)

\* Both publishes ran, to the same branch of the same repository, and both
\* are Done.
BothDoneOnOneBranch ==
    /\ Active = Procs
    /\ \A p \in Procs : pc[p] = "Done"
    /\ args[1].owner = args[2].owner
    /\ Target(1) = Target(2)

\* The publish whose ref update the remote performed last, and the other.
LastUpdater == refLog[Len(refLog)].by

EarlierUpdater == CHOOSE p \in Procs : p # LastUpdater

\* The ref is the commit of the last updater; the commit of the earlier
\* one is in the object store.
LastWriterWins ==
    /\ refs[args[1].owner][Target(1)] = loc[LastUpdater].commitSHA
    /\ commits[loc[LastUpdater].commitSHA].message =
           args[LastUpdater].commitMessage
    /\ loc[EarlierUpdater].commitSHA \in 1..Len(commits)
    /\ loc[EarlierUpdater].commitSHA # loc[LastUpdater].commitSHA
    /\ commits[loc[EarlierUpdater].commitSHA].message =
           args[EarlierUpdater].commitMessage

---------------------------------------------------------------------------
(* C6 *)

\* createBranch called twice in a row on the refs of this state.
CreateBranchTwice(o, b, sha) ==
    LET r1 == createBranch(refs, o, b, sha, RemoteCreateRef(refs, o, b, sha))
        r2 == createBranch(r1.refs, o, b, sha,
                           RemoteCreateRef(r1.refs, o, b, sha))
    IN  [first |-> r1, second |-> r2]

\* C6: createBranch called twice with the same branch name and base commit
\* succeeds both times, and the second call leaves the refs as the first
\* left them; a publish whose createBranch found the branch existing does
\* not fail there and does not move the branch.
C6_CreateBranchIdempotent ==
    /\ \A o \in Owners, b \in RefNames, sha \in 1..Len(commits) :
          repos[o] = "ready" =>
              LET two == CreateBranchTwice(o, b, sha)
              IN  /\ ~two.first.threw
                  /\ ~two.second.threw
                  /\ two.second.refs = two.first.refs
                  /\ refs[o][b] = NoSha => two.first.refs[o][b] = sha
                  /\ refs[o][b] # NoSha => two.first.refs = refs
    /\ \A p \in Procs : \A i \in CallsOf(p, "createBranch") :
          calls[p][i].arg.alreadyExists =>
              /\ i = Len(calls[p]) => pc[p] = "ResolvingBaseTree"
              /\ \A k \in 1..Len(refLog) :
                    ~(refLog[k].by = p /\ refLog[k].op = "createBranch")

\* Two publishes called createBranch with the same name and base commit:
\* the first created the branch, the second found it and went on.
C6_Witness ==
    \E p, q \in Procs :
        \E i \in CallsOf(p, "createBranch"), j \in CallsOf(q, "createBranch") :
            /\ p # q
            /\ calls[p][i].status = 201
            /\ calls[q][j].arg.alreadyExists
            /\ calls[q][j].arg.branch = calls[p][i].arg.branch
            /\ calls[q][j].arg.sha = calls[p][i].arg.sha
            /\ pc[q] = "ResolvingBaseTree"
            /\ refs[args[q].owner][args[q].newBranch] = calls[p][i].arg.sha

---------------------------------------------------------------------------
(* C7 *)

\* C7: a create-branch call that failed for another reason than the branch
\* existing already makes the publish fail there: it is the last call of
\* the publish, so no blob, tree or commit is created and no ref updated.
C7_OtherFailuresFatal ==
    \A p \in Procs : \A i \in CallsOf(p, "createBranch") :
        (calls[p][i].status # 201 /\ ~calls[p][i].arg.alreadyExists) =>
            /\ i = Len(calls[p])
            /\ pc[p] = "Failed"

---------------------------------------------------------------------------
(* C8 *)

\* C8: with a distinct non-empty newBranch, the branch exists on the remote,
\* created by the publish from the base head unless it existed already,
\* before any blob, tree or commit is created; the ref update targets
\* newBranch and the publish never writes the ref of the base branch; with
\* an empty newBranch the ref update targets baseBranch.
C8_NewBranchFirst ==
    \A p \in Procs :
        LET o == args[p].owner
            nb == args[p].newBranch
        IN  /\ (DistinctNewBranch(p) /\
                \E i \in 1..Len(calls[p]) :
                    calls[p][i].op \in {"createBlob", "createTree",
                                        "createCommit"}) =>
                  /\ nb \in RefNames
                  /\ refs[o][nb] # NoSha
                  /\ \E i \in CallsOf(p, "createBranch") :
                        /\ calls[p][i].arg.branch = nb
                        /\ calls[p][i].arg.sha = loc[p].baseSHA
                        /\ \A j \in 1..i : calls[p][j].op \notin ObjectCalls
            /\ DistinctNewBranch(p) =>
                  /\ \A i \in CallsOf(p, "updateBranch") :
                        calls[p][i].arg.branch = nb
                  /\ \A k \in 1..Len(refLog) :
                        (refLog[k].by = p /\ refLog[k].op # "createRepository")
                            => refLog[k].branch # args[p].baseBranch
            /\ nb = "" =>
                  \A i \in CallsOf(p, "updateBranch") :
                      calls[p][i].arg.branch = args[p].baseBranch

---------------------------------------------------------------------------
(* C9 *)

\* C9: createRepository is called exactly when repositoryExists returned
\* false, at most once, for a public repository with an initial commit,
\* and the fixed delay is waited before the base head is read; when the
\* repository exists there is neither a creation nor a delay.
C9_CreateWhenAbsent ==
    \A p \in Procs :
        LET h == calls[p]
        IN  /\ Cardinality(CallsOf(p, "createRepository")) <= 1
            /\ Cardinality(CallsOf(p, "wait")) <= 1
            /\ \A i \in CallsOf(p, "createRepository") :
                  /\ i > 1
                  /\ h[i - 1].op = "repositoryExists"
                  /\ h[i - 1].status = 404
                  /\ h[i].arg.private = FALSE
                  /\ h[i].arg.auto_init = TRUE
                  /\ h[i].status = 201 =>
                        \E o \in Owners :
                            repos[o] = "ready" /\ refs[o][DefaultBranch] # NoSha
            /\ \A i \in CallsOf(p, "repositoryExists") :
                  /\ h[i].status = 404 =>
                        IF i = Len(h) THEN pc[p] = "CreatingRepository"
                        ELSE h[i + 1].op = "createRepository"
                  /\ h[i].status = 200 =>
                        /\ CallsOf(p, "createRepository") = {}
                        /\ CallsOf(p, "wait") = {}
                        /\ i = Len(h) => pc[p] = "ResolvingBaseBranch"
            /\ \A i \in CallsOf(p, "wait") :
                  /\ i > 1
                  /\ h[i - 1].op = "createRepository"
                  /\ h[i - 1].status = 201
                  /\ h[i].arg.ms = PropagationDelayMs
            /\ \A i \in CallsOf(p, "getBranchSHA") :
                  CallsOf(p, "createRepository") # {} => h[i - 1].op = "wait"

\* A publish created the repository, waited and read the base head.
C9_Witness ==
    \E p \in Procs :
        /\ CallsOf(p, "createRepository") # {}
        /\ \E i \in CallsOf(p, "getBranchSHA") : calls[p][i].status = 200

---------------------------------------------------------------------------
(* C10 *)

\* C10: a publish that is Done with N validated files issued N createBlob
\* calls, one createTree, one createCommit and one updateBranch, all
\* successful, and returned the id of its commit with a branchUrl ending
\* in /tree/<branch>, the branch whose ref the remote updated.
C10_SuccessfulPublish ==
    \A p \in Procs :
        pc[p] = "Done" =>
            LET h == calls[p]
                n == Cardinality({i \in 1..Len(args[p].files) :
                                     FileFilter(args[p].files[i])})
                u == out[p].value.branchUrl
            IN  /\ n > 0
                /\ Cardinality(CallsOf(p, "createBlob")) = n
                /\ Cardinality(CallsOf(p, "createTree")) = 1
                /\ Cardinality(CallsOf(p, "createCommit")) = 1
                /\ Cardinality(CallsOf(p, "updateBranch")) = 1
                /\ \A i \in 1..Len(h) :
                      h[i].op \in ObjectCalls => h[i].status \in {200, 201}
                /\ out[p].state = "returned"
                /\ out[p].value.commitSHA \in 1..Len(commits)
                /\ commits[out[p].value.commitSHA].message =
                       args[p].commitMessage
                /\ Len(trees[commits[out[p].value.commitSHA].tree].entries) = n
                /\ Len(u) >= 2
                /\ u[Len(u) - 1] = "tree"
                /\ \E k \in 1..Len(refLog) :
                      /\ refLog[k].by = p
                      /\ refLog[k].op = "updateBranch"
                      /\ refLog[k].sha = out[p].value.commitSHA
                      /\ refLog[k].branch = u[Len(u)]
                      /\ refLog[k].owner = u[2]

\* The end-to-end scenario: the repository was absent, the publish created
\* it, published two files and is Done.
C10_Witness ==
    \E p \in Procs :
        /\ pc[p] = "Done"
        /\ CallsOf(p, "createRepository") # {}
        /\ Len(loc[p].validatedFiles) = 2
        /\ out[p].value.branchUrl[5] = "main"


---------------------------------------------------------------------------
(* Reading the outcome of a failed publish. *)

\* The last call publish p issued.
LastCall(p) == calls[p][Len(calls[p])]

\* Publish p failed at a call of one of ops that was answered with status.
FailedAt(p, ops, status) ==
    /\ pc[p] = "Failed"
    /\ Len(calls[p]) > 0
    /\ LastCall(p).op \in ops
    /\ LastCall(p).status = status

\* Piece occurs in message.
Contains(message, piece) == \E i \in 1..Len(message) : message[i] = piece

\* The pieces of part occur in message, next to each other, from place k.
OccursAt(message, part, k) ==
    /\ k + Len(part) - 1 <= Len(message)
    /\ \A j \in 1..Len(part) : message[k + j - 1] = part[j]

---------------------------------------------------------------------------
(* C11 *)

\* C11: when the branch-head read of a publish is answered 409 (an empty
\* repository), the error pushFilesAsCommit throws is a distinct error, not
\* the transport error of the request, and its message says that the
\* repository is empty.
C11_EmptyRepositoryError ==
    \A p \in Procs :
        FailedAt(p, {"getBranchSHA"}, 409) =>
            /\ out[p].state = "threw"
            /\ out[p].error.type = "Error"
            /\ out[p].error.message # AxiosMessage(409)
            /\ \E i \in 1..Len(out[p].error.message) :
                   out[p].error.message[i] \in {"is empty", "empty repository"}

---------------------------------------------------------------------------
(* C12 *)

\* What names entry e in a message: its message, else its code, else the
\* entry written out.
EntryText(e) ==
    IF e.message # "" THEN <<e.message>>
    ELSE IF e.code # "" THEN <<e.code>>
    ELSE StringifyEntry(e)

\* Entry e is shown in message: its resource (unknown when it has none),
\* followed by what names it.
EntryShown(message, e) ==
    \E k \in 1..Len(message) :
        OccursAt(message,
                 <<IF e.resource # "" THEN e.resource ELSE "unknown", ": ">>
                 \o EntryText(e), k)

\* Publish p never moved a ref with updateBranch.
NoRefUpdateBy(p) ==
    /\ CallsOf(p, "updateBranch") = {}
    /\ \A i \in 1..Len(refLog) :
           ~(refLog[i].by = p /\ refLog[i].op = "updateBranch")

---------------------------------------------------------------------------
(* C13 *)

\* A network error (no response) or a server error.
TransportFailure(status) == status = 0 \/ status >= 500

\* C13: when a remote call of a publish fails with a transport failure, the
\* credential verification included, the error pushFilesAsCommit throws is
\* that same error.
C13_TransportAsIs ==
    \A p \in Procs :
        (/\ pc[p] = "Failed"
         /\ Len(calls[p]) > 0
         /\ TransportFailure(LastCall(p).status)) =>
            /\ out[p].state = "threw"
            /\ out[p].error = AxiosError(LastCall(p).status)

---------------------------------------------------------------------------
(* C14 *)

\* C14: when GET /user rejects the credential, verifyToken throws and the
\* publish fails having issued no other remote call.
C14_RejectedCredentialStops ==
    \A p \in Procs :
        (/\ Len(calls[p]) > 0
         /\ calls[p][1].op = "verifyToken"
         /\ calls[p][1].status = 401) =>
            /\ pc[p] = "Failed"
            /\ Len(calls[p]) = 1
            /\ out[p].state = "threw"
            /\ out[p].error.type = "Error"
            /\ out[p].error.message[1] = "GitHub token verification failed: "
            /\ refLog = <<>> /\ blobs = {}

\* A publish whose credential was rejected.
C14_Witness ==
    \E p \in Procs :
        /\ FailedAt(p, {"verifyToken"}, 401)
        /\ repos[args[p].owner] = "absent"

---------------------------------------------------------------------------
(* C15 *)

\* The credential of publish p is of another login than the owner, or has
\* neither the repo nor the public_repo scope.
SuspectCredential(p) ==
    \/ TokenLogin # args[p].owner
    \/ tokenScopes \cap {"repo", "public_repo"} = {}

\* C15: after a credential was verified, whether or not its login is the
\* owner and whether or not it has a write scope, the publish is at
\* CheckingRepository, not failed, its locals being those of a publish with
\* a matching and fully scoped credential apart from the token information.
C15_WarningsNotFatal ==
    \A p \in Procs :
        (/\ Len(calls[p]) = 1
         /\ calls[p][1].op = "verifyToken"
         /\ calls[p][1].status = 200) =>
            /\ pc[p] = "CheckingRepository"
            /\ out[p] = Pending
            /\ [loc[p] EXCEPT !.tokenInfo = InitialLocals(args[p]).tokenInfo]
                   = InitialLocals(args[p])

\* A publish went on to the repository check with a credential of another
\* login that has no write scope.
C15_Witness ==
    \E p \in Procs :
        /\ Len(calls[p]) = 1
        /\ calls[p][1].op = "verifyToken"
        /\ calls[p][1].status = 200
        /\ TokenLogin # args[p].owner
        /\ tokenScopes \cap {"repo", "public_repo"} = {}
        /\ pc[p] = "CheckingRepository"

---------------------------------------------------------------------------
(* C16 *)

\* The remote calls of a publish (the wait is none).
RemoteOps ==
    {"verifyToken", "repositoryExists", "createRepository", "getBranchSHA",
     "createBranch", "getCommit", "createBlob", "createTree", "createCommit",
     "updateBranch"}

\* C16: within one publish every remote primitive is called at most once,
\* createBlob at most once per validated file, and no remote call follows a
\* remote call that failed.
C16_NoRetry ==
    \A p \in Procs :
        /\ \A op \in RemoteOps \ {"createBlob"} :
               Cardinality(CallsOf(p, op)) <= 1
        /\ Cardinality(CallsOf(p, "createBlob")) <= Len(loc[p].validatedFiles)
        /\ \A i \in 1..(Len(calls[p]) - 1) : Succeeded(calls[p][i])

---------------------------------------------------------------------------
(* C17 *)

\* C17: a repository is created only right after the existence check was
\* answered 404, which the check reads as "not there" and goes on;  any
\* other failure of the check is fatal, and so is a 404 to the read of the
\* base branch head or of the base commit: it is the last call of the
\* publish, which fails with that error.
C17_NotFoundCreatesOnlyAtCheck ==
    \A p \in Procs : \A i \in 1..Len(calls[p]) :
        LET c == calls[p][i]
            last == i = Len(calls[p])
        IN  /\ c.op = "createRepository" =>
                  /\ i > 1
                  /\ calls[p][i - 1].op = "repositoryExists"
                  /\ calls[p][i - 1].status = 404
            /\ (c.op = "repositoryExists" /\ c.status = 404) =>
                  IF last THEN pc[p] = "CreatingRepository"
                  ELSE calls[p][i + 1].op = "createRepository"
            /\ (c.op = "repositoryExists" /\ c.status \notin {200, 404}) =>
                  /\ last
                  /\ pc[p] = "Failed"
                  /\ out[p] = Threw(AxiosError(c.status))
            /\ (c.op \in {"getBranchSHA", "getCommit"} /\ c.status = 404) =>
                  /\ last
                  /\ pc[p] = "Failed"
                  /\ out[p] = Threw(AxiosError(404))

\* The read of the base commit of a publish was answered 404 after the
\* repository was found.
C17_Witness ==
    \E p \in Procs :
        /\ FailedAt(p, {"getCommit"}, 404)
        /\ \E i \in CallsOf(p, "repositoryExists") : calls[p][i].status = 200

---------------------------------------------------------------------------
(* C18 *)

\* Two concurrent publishes; every await of each eventually returns.
SpecConcurrentFair == InitConcurrent /\ [][Next]_vars /\ WF_vars(Next)

\* The branch publish p was asked to update.
RequestedBranch(p) ==
    IF args[p].newBranch # "" THEN args[p].newBranch ELSE args[p].baseBranch

\* Two publishes to different branches of one repository that was there
\* before both.
DisjointPublishes ==
    /\ Active = Procs
    /\ args[1].owner = args[2].owner
    /\ RequestedBranch(1) # RequestedBranch(2)
    /\ repos[args[1].owner] = "ready"
    /\ \A p \in Procs : CallsOf(p, "createRepository") = {}

\* The tree of the commit of publish p has p's validated files as entries.
OwnFiles(p) ==
    LET vf == ValidateFiles(args[p].files)
        sha == loc[p].commitSHA
    IN  /\ sha \in 1..Len(commits)
        /\ commits[sha].message = args[p].commitMessage
        /\ Len(trees[commits[sha].tree].entries) = Len(vf)
        /\ \A i \in 1..Len(vf) :
               /\ trees[commits[sha].tree].entries[i].path = vf[i].path
               /\ trees[commits[sha].tree].entries[i].sha = vf[i].content

\* Neither of two disjoint publishes fails, and the branch of one that is
\* Done points at its own commit.
DisjointIndependent ==
    DisjointPublishes =>
        \A p \in Procs :
            /\ pc[p] # "Failed"
            /\ pc[p] = "Done" =>
                  /\ refs[args[p].owner][RequestedBranch(p)] = loc[p].commitSHA
                  /\ OwnFiles(p)

\* C18: two concurrent publishes to different branches of one existing
\* repository, no remote call failing: whatever the interleaving, neither
\* fails, both reach Done, and each branch ends at the commit of its own
\* publish, built from its own files.
C18_DisjointPublishes ==
    /\ []DisjointIndependent
    /\ [](DisjointPublishes => <>(\A p \in Procs : pc[p] = "Done"))

\* Both disjoint publishes are Done, the one to the new branch having read
\* the base head after the other moved it.
C18_Witness ==
    /\ DisjointPublishes
    /\ \A p \in Procs : pc[p] = "Done"
    /\ \E p, q \in Procs :
           /\ p # q
           /\ loc[p].baseSHA = loc[q].commitSHA
           /\ refs[args[p].owner][RequestedBranch(p)] = loc[p].commitSHA
           /\ refs[args[q].owner][RequestedBranch(q)] = loc[q].commitSHA

---------------------------------------------------------------------------
(* Reading the history of a walk. *)

\* The file entries of a tree listing.
IsFileEntry(item) == item.type = "blob"

FileEntries(tree) == SelectSeq(tree, IsFileEntry)

\* The paths of a sequence of entries or of files.
PathsOf(entries) == [i \in 1..Len(entries) |-> entries[i].path]

HasDot(path) == \E i \in 1..Len(path) : path[i] = "."

\* The characters of path after its last '.', for a path that has one.
SuffixAfterLastDot(path) ==
    LET last == CHOOSE i \in 1..Len(path) :
                    /\ path[i] = "."
                    /\ \A j \in (i + 1)..Len(path) : path[j] # "."
    IN  SubSeq(path, last + 1, Len(path))

\* The extensions the config of the walk lists.
IncludedExtensions ==
    {Value(wcfg.includeExtensions)[i] :
        i \in 1..Len(Value(wcfg.includeExtensions))}

\* No entry of the walk was rejected by another filter than the extension
\* check, and no content request failed.
OnlyExtensionRejects ==
    \A k \in 1..Len(wlog) :
        wlog[k].outcome \in {"not a file", "extension", "returned"}

\* A walk with a non-empty includeExtensions returned, the extension check
\* having been the only one to reject.
ExtensionWalkReturned ==
    /\ wpc = "Returned"
    /\ Given(wcfg.includeExtensions)
    /\ Len(Value(wcfg.includeExtensions)) > 0
    /\ OnlyExtensionRejects

---------------------------------------------------------------------------
(* C19 *)

\* The lowercase suffix after the last '.' of the entry's path is listed.
SuffixListed(item) ==
    /\ HasDot(item.path)
    /\ ToLowerCase(SuffixAfterLastDot(item.path)) \in IncludedExtensions

\* The same, the whole path being the suffix of a path without '.'.
SuffixOrNameListed(item) ==
    IF HasDot(item.path) THEN SuffixListed(item)
    ELSE ToLowerCase(item.path) \in IncludedExtensions

\* C19 as stated: with a non-empty includeExtensions and no other filter
\* rejecting, the walk returns exactly the file entries whose lowercase
\* suffix after the last '.' is listed, and counts one skip for each other
\* file entry.
C19_Original ==
    ExtensionWalkReturned =>
        LET kept == SelectSeq(FileEntries(wremote.tree), SuffixListed)
        IN  /\ PathsOf(wout.files) = PathsOf(kept)
            /\ wloc.skippedCount =
                   Len(FileEntries(wremote.tree)) - Len(kept)

\* C19, amended: with a non-empty includeExtensions and no other filter
\* rejecting, the walk returns exactly the file entries whose lowercase
\* suffix after the last '.', or whose whole lowercase path when it has no
\* '.', is listed, in the order of the listing, and counts one skip for
\* each other file entry.
C19_ExtensionAllowList ==
    ExtensionWalkReturned =>
        LET kept == SelectSeq(FileEntries(wremote.tree), SuffixOrNameListed)
        IN  /\ PathsOf(wout.files) = PathsOf(kept)
            /\ wloc.skippedCount =
                   Len(FileEntries(wremote.tree)) - Len(kept)

\* The walk of a.ts, b.py, c.md with includeExtensions ts and md returned
\* a.ts and c.md and counted one skip.
C19_Witness ==
    /\ ExtensionWalkReturned
    /\ IncludedExtensions = {<<"t", "s">>, <<"m", "d">>}
    /\ PathsOf(wremote.tree) = <<<<"a", ".", "t", "s">>,
                                 <<"b", ".", "p", "y">>,
                                 <<"c", ".", "m", "d">>>>
    /\ PathsOf(wout.files) = <<<<"a", ".", "t", "s">>, <<"c", ".", "m", "d">>>>
    /\ wloc.skippedCount = 1

---------------------------------------------------------------------------
(* C20 *)

\* The step finishes the turn of one entry of the listing.
EntryProcessed == Len(wlog') = Len(wlog) + 1

\* What the size limit means for the entry a step finishes: a file larger
\* than maxFileSize is not returned and counted once, a file that is not
\* larger is not skipped for its size.
SizeLimitKept ==
    EntryProcessed =>
        LET e == wlog'[Len(wlog')]
            item == wloc.tree[e.i]
        IN  /\ (IsFileEntry(item) /\ item.data.size > wcfg.maxFileSize) =>
                   /\ wloc'.skippedCount = wloc.skippedCount + 1
                   /\ wloc'.files = wloc.files
                   /\ e.outcome # "returned"
            /\ (IsFileEntry(item) /\ item.data.size <= wcfg.maxFileSize) =>
                   e.outcome # "large"

\* C20: a file entry whose reported size is greater than maxFileSize
\* (1,048,576 when the config gives none) is not returned and adds exactly
\* one to the skip counter; an entry whose size is at most maxFileSize is
\* not skipped by the size check.
C20_SizeLimit ==
    /\ [][SizeLimitKept]_vars
    /\ [](WalkConfig(None, None, None, None, Undefined).maxFileSize = 1048576)

\* With the default limit, a file of 1,048,577 bytes was skipped for its
\* size and a file of 1,048,576 bytes returned.
C20_Witness ==
    /\ wcfg.maxFileSize = 1048576
    /\ \E k, l \in 1..Len(wlog) :
           /\ wlog[k].outcome = "large"
           /\ wloc.tree[wlog[k].i].data.size = 1048577
           /\ wlog[l].outcome = "returned"
           /\ wloc.tree[wlog[l].i].data.size = 1048576
    /\ wloc.skippedCount >= 1

---------------------------------------------------------------------------
(* C21 *)

\* The entry of the listing a history entry is about.
EntryOf(e) == wremote.tree[e.i]

\* A step that finishes the turn of an entry with an error counts one skip,
\* returns nothing for it, and leaves the walk in its loop at the next entry.
EntryErrorCounted ==
    (EntryProcessed /\ wlog'[Len(wlog')].outcome = "error") =>
        /\ wloc'.skippedCount = wloc.skippedCount + 1
        /\ wloc'.files = wloc.files
        /\ wloc'.index = wloc.index + 1
        /\ wpc' = "Scanning"
        /\ wout' = wout

\* A walk that returned processed every entry of the listing, once and in
\* order; a walk fails only at the listing request.
WholeListingProcessed ==
    /\ wpc = "Returned" =>
           /\ wout.state = "returned"
           /\ Len(wlog) = Len(wremote.tree)
           /\ \A k \in 1..Len(wlog) : wlog[k].i = k
    /\ wpc = "Failed" => wlog = <<>>

\* C21: a failure while fetching or processing one file entry (a failed
\* content request, a custom filter that throws) does not end the walk: the
\* entry is counted as one skip, the later entries are processed and the
\* walk returns.
C21_EntryFailureNotFatal ==
    [][EntryErrorCounted]_vars /\ []WholeListingProcessed

\* A walk returned in which the custom filter threw on one entry and the
\* content request of a later entry failed.
C21_Witness ==
    /\ wpc = "Returned"
    /\ \E k, l \in 1..Len(wlog) :
           /\ k < l
           /\ wlog[k].outcome = "error" /\ wlog[k].filtered
           /\ wlog[l].outcome = "error" /\ ~wlog[l].filtered
    /\ wloc.skippedCount >= 2

---------------------------------------------------------------------------
(* C22 *)

\* C22: the result of a walk gives the caller the surviving entries and the
\* count of the skipped entries.
C22_ResultHasSkipCount ==
    wpc = "Returned" =>
        /\ wout.files = wloc.files
        /\ "skippedCount" \in DOMAIN wout
        /\ wout.skippedCount = wloc.skippedCount

---------------------------------------------------------------------------
(* C27 *)

\* The content request of the entry of history entry e failed: an error
\* before the custom filter was reached.
RequestFailed(e) == e.fetched /\ e.outcome = "error" /\ ~e.filtered

\* The decoding of the entry's content fails and binary files are left out.
BinaryRejects(item) == Decode(item.data).threw /\ ~wcfg.includeBinary

\* What the history says of file entry e against the order exclude
\* pattern, extension, content request, size, decoding, custom filter, the
\* first rejection ending the entry's turn.
FilterOrderKept(e) ==
    LET item == EntryOf(e)
        excluded == ExcludeRejects(wcfg.excludePatterns, item.path)
        extension == ExtensionRejects(wcfg.includeExtensions, item.path)
        large == TooLarge(item.data.size, wcfg.maxFileSize)
    IN  /\ e.outcome = "excluded" <=> excluded
        /\ e.outcome = "extension" <=> (~excluded /\ extension)
        /\ e.fetched <=> (~excluded /\ ~extension)
        /\ e.outcome = "large" <=> (e.fetched /\ ~RequestFailed(e) /\ large)
        /\ e.outcome = "binary" <=>
               (e.fetched /\ ~RequestFailed(e) /\ ~large /\ BinaryRejects(item))
        /\ e.filtered <=>
               (/\ e.fetched /\ ~RequestFailed(e) /\ ~large
                /\ ~BinaryRejects(item)
                /\ wcfg.customFilter # Undefined)
        /\ e.outcome = "filtered" => e.filtered

\* C27: the walker applies its filters to a file entry in the order exclude
\* pattern, extension, content request, size, decoding, custom filter and
\* stops at the first rejection: no content request for an entry the
\* exclude or the extension check rejects, no call of the custom filter for
\* an entry an earlier filter rejects.
C27_FilterOrder ==
    \A k \in 1..Len(wlog) :
        IsFileEntry(EntryOf(wlog[k])) => FilterOrderKept(wlog[k])

\* An entry the exclude check rejected without a content request, and an
\* entry too large that the custom filter, had it been called, would have
\* rejected.
C27_Witness ==
    \E k, l \in 1..Len(wlog) :
        /\ wlog[k].outcome = "excluded" /\ ~wlog[k].fetched
        /\ wlog[l].outcome = "large" /\ ~wlog[l].filtered
        /\ wcfg.customFilter # Undefined
        /\ CustomFilter(wcfg.customFilter, wlog[l].path, "text") # "true"

---------------------------------------------------------------------------
(* C28 *)

\* The glob pattern matches the whole of str: '*' any run of characters,
\* '?' any one character, every other character itself.
RECURSIVE GlobMatches(_, _)
GlobMatches(pattern, str) ==
    IF pattern = <<>> THEN str = <<>>
    ELSE IF pattern[1] = "*"
         THEN \E k \in 0..Len(str) :
                  GlobMatches(Tail(pattern), SubSeq(str, k + 1, Len(str)))
    ELSE IF str = <<>> THEN FALSE
    ELSE IF pattern[1] = "?" THEN GlobMatches(Tail(pattern), Tail(str))
    ELSE pattern[1] = str[1] /\ GlobMatches(Tail(pattern), Tail(str))

\* One of the exclude patterns of the walk matches the whole path.
SomeGlobMatches(path) ==
    /\ Given(wcfg.excludePatterns)
    /\ \E i \in 1..Len(Value(wcfg.excludePatterns)) :
           GlobMatches(Value(wcfg.excludePatterns)[i], path)

\* C28: a file entry is skipped by the exclude check exactly when one of
\* the glob patterns matches its full path, from its first to its last
\* character.
C28_ExcludeIsGlobMatch ==
    \A k \in 1..Len(wlog) :
        IsFileEntry(EntryOf(wlog[k])) =>
            (wlog[k].outcome = "excluded" <=> SomeGlobMatches(wlog[k].path))

---------------------------------------------------------------------------
(* C29 *)

\* The content of the entry is no UTF-8 text.
NotUtf8(item) == item.data.payload = "binary"

\* The decoding of the entry of history entry e was reached.
DecodingReached(e) ==
    /\ e.fetched
    /\ ~RequestFailed(e)
    /\ e.outcome # "large"

\* C29: a file entry whose content does not decode as UTF-8 text is skipped
\* and never returned when includeBinary is false, and is returned with its
\* raw encoded payload as content when includeBinary is true (and the custom
\* filter lets it through).
C29_BinaryHandling ==
    \A k \in 1..Len(wlog) :
        (/\ IsFileEntry(EntryOf(wlog[k]))
         /\ NotUtf8(EntryOf(wlog[k]))
         /\ DecodingReached(wlog[k])) =>
            IF ~wcfg.includeBinary
            THEN /\ wlog[k].outcome = "binary"
                 /\ \A f \in 1..Len(wloc.files) :
                        wloc.files[f].path # wlog[k].path
            ELSE wlog[k].outcome = "returned" =>
                     \E f \in 1..Len(wloc.files) :
                         /\ wloc.files[f].path = wlog[k].path
                         /\ wloc.files[f].content = EntryOf(wlog[k]).data.raw

---------------------------------------------------------------------------
(* C30 *)

\* The extension check was reached for the entry of history entry e, with
\* a non-empty includeExtensions, and the entry's path has no '.'.
NoDotChecked(e) ==
    /\ IsFileEntry(EntryOf(e))
    /\ ~HasDot(e.path)
    /\ Given(wcfg.includeExtensions)
    /\ Len(Value(wcfg.includeExtensions)) > 0
    /\ e.outcome # "excluded"

\* C30 as stated: with a non-empty includeExtensions, a file entry whose
\* path has no '.' is skipped by the extension check, whatever its name.
C30_Original ==
    \A k \in 1..Len(wlog) :
        NoDotChecked(wlog[k]) => wlog[k].outcome = "extension"

\* C30, amended: with a non-empty includeExtensions, a file entry whose path
\* has no '.' is checked by its whole lowercase path: it is skipped by the
\* extension check exactly when that name is not listed.
C30_NoDotCheckedByName ==
    \A k \in 1..Len(wlog) :
        NoDotChecked(wlog[k]) =>
            (wlog[k].outcome = "extension"
                 <=> ToLowerCase(wlog[k].path) \notin IncludedExtensions)

\* A walk that skipped one entry without '.' for its extension and let
\* another through to its content request.
C30_Witness ==
    \E k, l \in 1..Len(wlog) :
        /\ NoDotChecked(wlog[k]) /\ wlog[k].outcome = "extension"
        /\ NoDotChecked(wlog[l]) /\ wlog[l].fetched

---------------------------------------------------------------------------
(* C24 *)

\* The publish of p left step at with this transition, without failing.
Passed(p, at) == pc[p] = at /\ pc'[p] \notin {at, "Failed"}

\* baseSHA is the head of the base branch as the remote had it when
\* ResolvingBaseBranch read it, baseTreeSHA the tree of that commit; neither
\* is assigned anywhere else.
BaseReadOnce ==
    \A p \in Procs :
        /\ IF Passed(p, "ResolvingBaseBranch")
           THEN loc'[p].baseSHA = refs[args[p].owner][args[p].baseBranch]
           ELSE loc'[p].baseSHA = loc[p].baseSHA
        /\ IF Passed(p, "ResolvingBaseTree")
           THEN loc'[p].baseTreeSHA = commits[loc[p].baseSHA].tree
           ELSE loc'[p].baseTreeSHA = loc[p].baseTreeSHA

\* The commit a publish created: its request named one parent, the base
\* head, and the new tree; the remote holds it so; the new tree is the one
\* the publish created on the tree of the base head.
CommitOnBaseHead(p) ==
    \A i \in CallsOf(p, "createCommit") :
        calls[p][i].status = 201 =>
            LET l == loc[p]
                commit == commits[l.commitSHA]
            IN  /\ calls[p][i].arg.parents = <<l.baseSHA>>
                /\ calls[p][i].arg.tree = l.newTreeSHA
                /\ commit.parent = l.baseSHA
                /\ commit.tree = l.newTreeSHA
                /\ \E j \in CallsOf(p, "createTree") :
                       /\ j < i
                       /\ calls[p][j].status = 201
                       /\ calls[p][j].arg.base_tree = commits[l.baseSHA].tree
                /\ trees[l.newTreeSHA].base = commits[l.baseSHA].tree
                /\ trees[l.newTreeSHA].entries = l.tree

\* C24: the commit a publish creates has exactly one parent, the head of
\* the base branch read in ResolvingBaseBranch, and its tree is the tree
\* created in CreatingBlobsAndTree, anchored at the tree of that same head.
C24_CommitOnBaseHead ==
    [][BaseReadOnce]_vars /\ [](\A p \in Procs : CommitOnBaseHead(p))

\* A publish done whose commit has for parent a head that is not the first
\* commit of the repository: another publish had moved the base branch.
C24_Witness ==
    \E p \in Procs :
        /\ pc[p] = "Done"
        /\ loc[p].baseSHA > 2
        /\ commits[loc[p].commitSHA].parent = loc[p].baseSHA
        /\ \E q \in Procs \ {p} : loc[q].commitSHA = loc[p].baseSHA

---------------------------------------------------------------------------
(* C25 *)

\* The positions of the input list of p whose file passes the validation,
\* in increasing order.
KeptPositions(p) ==
    SelectSeq([i \in 1..Len(args[p].files) |-> i],
              LAMBDA i : FileFilter(args[p].files[i]))

\* The calls of p before call i that created a blob, in the order issued.
BlobsBefore(p, i) ==
    SelectSeq(SubSeq(calls[p], 1, i - 1),
              LAMBDA c : c.op = "createBlob" /\ c.status = 201)

\* Call i of p, a createTree, came after one blob per validated file and
\* carries one entry per validated file in the order of the input list.
TreeOfAllBlobs(p, i) ==
    LET kept == KeptPositions(p)
        made == BlobsBefore(p, i)
        entries == calls[p][i].arg.tree
    IN  /\ Len(made) = Len(kept)
        /\ Len(entries) = Len(kept)
        /\ \A k \in 1..Len(kept) :
               LET file == args[p].files[kept[k]]
               IN  /\ made[k].arg.content = file.content
                   /\ BlobId(file.content) \in blobs
                   /\ entries[k] =
                          [path |-> Trim(ReplaceBackslashes(file.path)),
                           mode |-> "100644", type |-> "blob",
                           sha |-> BlobId(file.content)]

\* C25: the tree is created only after a blob was created for every
\* validated file; its entries are one per validated file, in the relative
\* order of the caller's list, each with mode 100644, type blob, the
\* normalized path and the id returned for the file's content.
C25_TreeAfterBlobs ==
    \A p \in Procs :
        \A i \in CallsOf(p, "createTree") : TreeOfAllBlobs(p, i)

\* A tree was created with two entries of different paths that carry the
\* same object id, the second file of the list having the content of the
\* first.
C25_Witness ==
    \E p \in Procs :
        \E i \in CallsOf(p, "createTree") :
            /\ calls[p][i].status = 201
            /\ Len(calls[p][i].arg.tree) = 2
            /\ calls[p][i].arg.tree[1].sha = calls[p][i].arg.tree[2].sha
            /\ calls[p][i].arg.tree[1].path # calls[p][i].arg.tree[2].path
            /\ calls[p][i].arg.tree[1].path =
                   Trim(ReplaceBackslashes(args[p].files[1].path))

---------------------------------------------------------------------------
(* C26 *)

\* The calls of p with operation op that the remote answered with status.
Answered(p, op, status) ==
    {i \in CallsOf(p, op) : calls[p][i].status = status}

\* The step in which a publish fails changes nothing on the remote, and a
\* failed publish issues no further call.
FailureUndoesNothing ==
    \A p \in Procs :
        /\ (pc[p] # "Failed" /\ pc'[p] = "Failed") =>
               UNCHANGED <<repos, refs, commits, trees, blobs>>
        /\ pc[p] = "Failed" => (pc'[p] = "Failed" /\ calls'[p] = calls[p])

\* What the steps a failed publish completed left on the remote.
CompletedStepsRemain(p) ==
    LET o == args[p].owner
        l == loc[p]
    IN  /\ Answered(p, "createRepository", 201) # {} =>
               /\ repos[TokenLogin] = "ready"
               /\ refs[TokenLogin][DefaultBranch] \in 1..Len(commits)
        /\ \A i \in Answered(p, "createBranch", 201) :
               /\ refs[o][calls[p][i].arg.branch] = l.baseSHA
               /\ calls[p][i].arg.branch = args[p].newBranch
        /\ \A i \in Answered(p, "createBlob", 201) :
               BlobId(calls[p][i].arg.content) \in blobs
        /\ Answered(p, "createTree", 201) # {} =>
               /\ l.newTreeSHA \in 1..Len(trees)
               /\ trees[l.newTreeSHA].entries = l.tree
        /\ Answered(p, "createCommit", 201) # {} =>
               /\ l.commitSHA \in 1..Len(commits)
               /\ commits[l.commitSHA].tree = l.newTreeSHA
               /\ \A b \in RefNames : refs[o][b] # l.commitSHA

\* C26: a failed publish performs no compensating action and leaves the
\* remote as its last completed step left it: a repository created in
\* CreatingRepository and a branch created in CreatingBranch remain, the
\* branch at the base head, even when the publish fails later.
C26_FailureLeavesCompletedSteps ==
    /\ [][FailureUndoesNothing]_vars
    /\ [](\A p \in Procs : pc[p] = "Failed" => CompletedStepsRemain(p))

\* A publish that created its repository and its branch and then failed
\* with the no-valid-files error.
C26_Witness ==
    \E p \in Procs :
        /\ pc[p] = "Failed"
        /\ out[p].error = PlainError(
               <<"No valid files to commit after validation">>)
        /\ Answered(p, "createRepository", 201) # {}
        /\ Answered(p, "createBranch", 201) # {}
        /\ refs[args[p].owner][args[p].newBranch] = loc[p].baseSHA

---------------------------------------------------------------------------
(* C23 *)

\* The tasks file did not exist when the call started.
FileMissing == ~tfile0.exists

\* The text of the tasks file was no JSON.
JsonMalformed == tfile0.exists /\ tfile0.text # "json"

\* The JSON of the tasks file had no tasks array.
NoTasksArray ==
    /\ tfile0.exists
    /\ tfile0.text = "json"
    /\ (tfile0.doc.kind # "object" \/ tfile0.doc.tasksField # "array")

\* The tasks file had a tasks array and neither a task nor a subtask of it
\* had the id of the call.
NoSuchId ==
    /\ tfile0.exists
    /\ tfile0.text = "json"
    /\ tfile0.doc.kind = "object"
    /\ tfile0.doc.tasksField = "array"
    /\ \A i \in 1..Len(tfile0.doc.tasks) :
           LET task == tfile0.doc.tasks[i]
           IN  /\ IdString(task.id) # IdString(topt.subtaskId)
               /\ Given(task.subtasks) =>
                      \A j \in 1..Len(Value(task.subtasks)) :
                          IdString(Value(task.subtasks)[j].id)
                              # IdString(topt.subtaskId)

\* A call that cannot succeed.
DoomedCall ==
    /\ tpc # "Off"
    /\ (FileMissing \/ JsonMalformed \/ NoTasksArray \/ NoSuchId)

\* The call did not return, and the file was not written.
NotWritten ==
    /\ tpc \notin {"Writing", "Returned"}
    /\ tout.state # "returned"
    /\ twrites = 0
    /\ tfile = tfile0

\* The call threw an error.
ThrewError ==
    /\ tpc = "Failed"
    /\ tout.state = "threw"
    /\ tout.error.type \in {"Error", "TypeError"}

\* C23: updateSubtaskCompleted fails with an error when the tasks file does
\* not exist, when its JSON is malformed or has no tasks array, or when no
\* task or subtask has the given id; in each case the tasks file is not
\* written and keeps its previous content.
C23_FailsWithoutWrite ==
    /\ [](DoomedCall => NotWritten)
    /\ [](DoomedCall => <>ThrewError)

\* A call for an id that no task and no subtask of a file of two tasks has
\* threw the not-found error and left the file as it was.
C23_Witness ==
    /\ NoSuchId
    /\ Len(tfile0.doc.tasks) = 2
    /\ ThrewError
    /\ tout.error.message =
           <<"Task or subtask with ID \"", IdString(topt.subtaskId),
             "\" not found">>
    /\ tfile = tfile0

---------------------------------------------------------------------------
(* C31 *)

\* The error that names the repository or branch as not found.
NotFoundError ==
    PlainError(<<"Repository ", RepoName, " or branch ", DefaultBranch,
                 " not found">>)

\* The error that names the repository as empty.
EmptyRepositoryError == PlainError(<<"Repository ", RepoName, " is empty">>)

\* What the walk is to throw for a listing request that failed with status.
Surfaced(status) ==
    CASE status = 404 -> NotFoundError
      [] status = 409 -> EmptyRepositoryError
      [] OTHER -> [type |-> "AxiosError", status |-> status,
                   message |-> AxiosMessage(status), data |-> NoData]

\* The statuses the listing request of this step may have failed with: the
\* one the remote gives for its state, or one the environment injected.
ListingFailures ==
    IF faultBudget' = faultBudget
    THEN {RemoteGetTree(wremote)} \ {200}
    ELSE TransportStatuses

\* The step that answers the listing request: a failure ends the walk with
\* the error of its status and no entry, a listing starts the loop.
ListingFailureSurfaced ==
    (wpc = "Listing" /\ wpc' # "Listing") =>
        IF wpc' = "Failed"
        THEN /\ wout'.state = "threw"
             /\ wout'.files = <<>>
             /\ wout'.error \in {Surfaced(st) : st \in ListingFailures}
             /\ wlog' = <<>>
        ELSE /\ faultBudget' = faultBudget
             /\ RemoteGetTree(wremote) = 200
             /\ wpc' = "Scanning"

\* A failed walk stays failed, with the error it threw and no entry.
FailedWalkFinal ==
    wpc = "Failed" =>
        /\ wout.state = "threw"
        /\ wout.files = <<>>
        /\ wout.error \in {NotFoundError, EmptyRepositoryError}
                          \cup {Surfaced(st) : st \in TransportStatuses}

\* C31: when the recursive tree listing request fails the walk fails as a
\* whole and returns no entry: a 404 is surfaced as the
\* repository-or-branch-not-found error, a 409 as the repository-is-empty
\* error, every other failure as the original error.
C31_ListingFailure ==
    [][ListingFailureSurfaced]_vars /\ []FailedWalkFinal

\* A walk of an empty repository failed with the repository-is-empty error.
C31_Witness ==
    /\ wpc = "Failed"
    /\ wremote.state = "empty"
    /\ wout.error = EmptyRepositoryError
    /\ wout.files = <<>>

---------------------------------------------------------------------------
(* C32 *)

\* The calls of p that created a tree or a commit.
TreesAndCommitsOf(p) ==
    {i \in CallsOf(p, "createTree") \cup CallsOf(p, "createCommit") :
         calls[p][i].status = 201}

\* The paths and contents the tree entries of p were made from are those of
\* the validated files of the input, and there is one at least.
FromValidatedFiles(p) ==
    LET validated == ValidateFiles(args[p].files)
    IN  /\ validated # <<>>
        /\ Len(loc[p].tree) = Len(validated)
        /\ \A k \in 1..Len(validated) :
               /\ loc[p].tree[k].path = validated[k].path
               /\ loc[p].tree[k].sha = BlobId(validated[k].content)

\* C32: every exported operation that publishes a file list applies the file
\* validation between the caller's input and the tree creation, so that no
\* tree and no commit is created from an empty or unvalidated file list;
\* commitFilesToBranch as well as pushFilesAsCommit.
C32_ValidatedBeforeTree ==
    \A p \in Procs : TreesAndCommitsOf(p) # {} => FromValidatedFiles(p)

---------------------------------------------------------------------------
(* C33 *)

\* The history entries of the file entries the walk returned, in the order
\* processed, and of those it skipped.
ReturnedEntries == SelectSeq(wlog, LAMBDA e : e.outcome = "returned")

SkippedEntries ==
    SelectSeq(wlog, LAMBDA e : e.outcome \notin {"returned", "not a file"})

\* Every entry of the listing has one history entry, in the order of the
\* listing; a file entry is returned or skipped, any other entry neither.
EachEntryOnce ==
    /\ Len(wlog) = Len(wremote.tree)
    /\ \A k \in 1..Len(wlog) :
           /\ wlog[k].i = k
           /\ wlog[k].path = wremote.tree[k].path
           /\ wlog[k].outcome = "not a file" <=> ~IsFileEntry(wremote.tree[k])

\* C33: after a walk that returns, every file entry of the listing is either
\* returned or counted as skipped, once, so the returned count plus the skip
\* count is the number of file entries; directory and submodule entries are
\* neither returned nor counted; the returned entries keep the order of the
\* listing.
C33_WalkAccounting ==
    wpc = "Returned" =>
        /\ EachEntryOnce
        /\ PathsOf(wout.files) = PathsOf(ReturnedEntries)
        /\ wloc.skippedCount = Len(SkippedEntries)
        /\ Len(wout.files) + wloc.skippedCount
               = Len(FileEntries(wremote.tree))

\* A walk returned a file, skipped another one that ended in an error, and
\* passed over an entry that is no file.
C33_Witness ==
    /\ wpc = "Returned"
    /\ Len(wout.files) = 1
    /\ wloc.skippedCount = 1
    /\ Len(wremote.tree) = 3
    /\ \E k \in 1..Len(wlog) : wlog[k].outcome = "error"
    /\ \E k \in 1..Len(wlog) : wlog[k].outcome = "not a file"

---------------------------------------------------------------------------
(* C34 *)

\* The repository publish p created is the one of the owner it was asked to
\* publish to, the one its later steps call.
CreatedForRequestedOwner(p) ==
    /\ repos[args[p].owner] = "ready"
    /\ \A k \in 1..Len(refLog) :
           (refLog[k].by = p /\ refLog[k].op = "createRepository") =>
               refLog[k].owner = args[p].owner
    /\ \A i \in 1..Len(calls[p]) :
           "owner" \in DOMAIN calls[p][i].arg =>
               calls[p][i].arg.owner = args[p].owner

\* C34: when the repository is absent and the publish creates it, the
\* repository created is the one of the requested (owner, repo), which all
\* later steps read from and write to, also when the requested owner is not
\* the login of the credential.
C34_CreatedIsRequested ==
    \A p \in Procs :
        (\E i \in CallsOf(p, "createRepository") : calls[p][i].status = 201)
            => CreatedForRequestedOwner(p)

---------------------------------------------------------------------------
(* C35 *)

\* Publish p asked for a distinct newBranch and its createBranch found the
\* branch existing.
NewBranchExisted(p) ==
    /\ DistinctNewBranch(p)
    /\ \E i \in CallsOf(p, "createBranch") : calls[p][i].arg.alreadyExists

\* The ref update that completes such a publish keeps the commit the branch
\* pointed to among the ancestors of the new tip.
OldTipKept ==
    \A p \in Procs :
        (pc[p] = "UpdatingRef" /\ pc'[p] = "Done" /\ NewBranchExisted(p)) =>
            ReachableFrom(refs[args[p].owner][args[p].newBranch],
                          refs'[args[p].owner][args[p].newBranch])

\* C35: after a successful publish to a distinct newBranch that existed
\* before the publish, the commit newBranch pointed to before is reachable
\* from the new tip of newBranch: it is the parent of the new commit or one
\* of its ancestors.
C35_ExistingBranchHistoryKept == [][OldTipKept]_vars

---------------------------------------------------------------------------
(* C36 *)

\* Two publishes run, to the repository of one owner, which is the login of
\* the credential and was absent before them.
SameAbsentRepository ==
    /\ Active = Procs
    /\ args[1].owner = args[2].owner
    /\ args[1].owner = TokenLogin
    /\ \A p \in Procs :
           \E i \in CallsOf(p, "repositoryExists") : calls[p][i].status = 404

\* The createRepository calls of all publishes.
CreateCalls ==
    UNION {{<<p, i>> : i \in CallsOf(p, "createRepository")} : p \in Procs}

\* Publish p failed at createRepository because the repository existed.
LostCreationRace(p) ==
    /\ pc[p] = "Failed"
    /\ LastCall(p).op = "createRepository"
    /\ LastCall(p).status = 422

\* C36: under every interleaving of two concurrent publishes to the same
\* repository, absent at first, at most one createRepository call is issued
\* for it and neither publish fails because the other created it first.
C36_OneCreation ==
    SameAbsentRepository =>
        /\ Cardinality(CreateCalls) <= 1
        /\ \A p \in Procs : ~LostCreationRace(p)

---------------------------------------------------------------------------
(* C37 *)

\* The positions of input that output was made from: strictly increasing,
\* each output file having the content of the input file at its position
\* and that file's path with '/' for '\' and trimmed.
IsOrderedSelection(f, input, output) ==
    /\ \A k \in 1..(Len(output) - 1) : f[k] < f[k + 1]
    /\ \A k \in 1..Len(output) :
           /\ output[k].content = input[f[k]].content
           /\ output[k].path = Trim(ReplaceBackslashes(input[f[k]].path))

\* output is input with some files left out, the order and the contents kept.
OrderPreserving(input, output) ==
    \E f \in [1..Len(output) -> 1..Len(input)] :
        IsOrderedSelection(f, input, output)

\* The validation of publish p has run and kept a file.
ValidationKept(p) == loc[p].validatedFiles # <<>>

---------------------------------------------------------------------------
(* C38 *)

\* Every publish that runs ends, Done or Failed.
PublishesEnd ==
    \A p \in Procs : pc[p] # "Off" ~> pc[p] \in {"Done", "Failed"}

\* A walk that runs ends, returning or failing.
WalkEnds == wpc # "Off" ~> wpc \in {"Returned", "Failed"}

\* The loop of the walk only moves forward through the listing: no entry
\* has two history entries, none is left out behind the loop index.
EachEntryAtMostOnce ==
    /\ Len(wlog) <= Len(wremote.tree)
    /\ \A k, l \in 1..Len(wlog) : wlog[k].i = wlog[l].i => k = l
    /\ wpc \in {"Scanning", "Fetching", "Returned"} =>
           wloc.index = Len(wlog) + 1

\* A publish waits at most once, the delay of PropagationDelayMs after it
\* created the repository, and issues each of its other calls at most once,
\* createBlob once per validated file.
BoundedCalls ==
    \A p \in Procs :
        /\ \A op \in RemoteOps \cup {"wait"} :
               op # "createBlob" => Cardinality(CallsOf(p, op)) <= 1
        /\ Cardinality(CallsOf(p, "createBlob")) <= Len(loc[p].validatedFiles)
        /\ \A i \in CallsOf(p, "wait") :
               /\ i > 1
               /\ calls[p][i - 1].op = "createRepository"
               /\ calls[p][i].arg = [ms |-> PropagationDelayMs]

\* C38: provided every remote call returns, with a result or an error,
\* every publish reaches Done or Failed and every walk returns or fails,
\* having processed each entry of the listing at most once; neither has an
\* unbounded loop or a wait other than the one fixed delay after the
\* creation of the repository.
C38_Termination ==
    /\ PublishesEnd
    /\ WalkEnds
    /\ []EachEntryAtMostOnce
    /\ []BoundedCalls

\* A publish that created its repository and waited is Done.
C38_Witness ==
    \E p \in Procs :
        /\ pc[p] = "Done"
        /\ CallsOf(p, "wait") # {}
        /\ Cardinality(CallsOf(p, "createBlob")) = 2

----------------------------------------------------------------------------
(* C39 *)

\* The task is the one the call is about: it has the subtask of the id, or
\* it has no subtasks and has the id itself.
Concerned(task) ==
    IF HasSubtasks(task)
    THEN \E j \in 1..Len(Value(task.subtasks)) :
             Value(task.subtasks)[j].id = topt.subtaskId
    ELSE IdString(task.id) = IdString(topt.subtaskId)

\* The call returned the document it wrote.
ReturnedUpdate == tpc = "Returned" /\ tout.state = "returned"

\* C39: when updateSubtaskCompleted returns, every task of the file that
\* neither has the subtask of the id nor, having no subtasks, the id itself,
\* is in the returned document as it was in the file, status and updatedAt
\* included.
C39_OtherTasksUnchanged ==
    ReturnedUpdate =>
        /\ Len(tout.value.tasks) = Len(tfile0.doc.tasks)
        /\ \A i \in 1..Len(tfile0.doc.tasks) :
               ~Concerned(tfile0.doc.tasks[i]) =>
                   tout.value.tasks[i] = tfile0.doc.tasks[i]

=============================================================================
